---- MODULE Spec2Model ----
(***************************************************************************)
(* Model of the SIN folder reorganizer (reorganize_sin.py): the change     *)
(* ledger (Ledger.add), the category rename/dedup pass                     *)
(* (plan_category_renames) and the executor (Ledger.execute, _exec_copy,   *)
(* _safe_dest, _log_change).                                               *)
(*                                                                         *)
(* A path is a triple <<dir, stem, n>>: the directory, the stem of the     *)
(* file name with a trailing _N removed, and N (0: the name carries no     *)
(* _N).  A stem is a sequence of tokens, words alternating with the        *)
(* separators between them; letters are taken up to case (every pattern of *)
(* the program is case-insensitive, and the short-name lookup lowercases). *)
(* Every file carries the extension .pdf.  Source files live in the        *)
(* directory SrcDir.  A folder is the path <<dir, <<>>, 0>>.               *)
(***************************************************************************)
EXTENDS Integers, Sequences, FiniteSets, TLC

VARIABLES
    changes,        \* Ledger.changes: sequence of Change records
    planned_dests,  \* Ledger._planned_dests: destination -> source
    plan0,          \* the ledger as planned (what a re-plan of the same tree gives)
    fs,             \* the file system: path -> content, for the files that exist
    dirs,           \* the directories that exist
    workers,        \* execute(workers=...)
    dry_run,        \* execute(dry_run=...)
    jsonl,          \* execute's jsonl_file is open (jsonl_path and not dry_run)
    next_i,         \* execute's loop index i: the next entry to dispatch
    pc,             \* per worker thread: where it is in _exec_copy
    cur,            \* per worker thread: index of the entry it executes
    actual,         \* per worker thread: _exec_copy's local `actual`
    attempt,        \* per worker thread: _exec_copy's loop variable `attempt`
    last_err,       \* per worker thread: kind of _exec_copy's `last_err`
    jsonl_lock,     \* 0: free, t: held by thread t
    log,            \* the JSONL file: sequence of line fragments
    bar,            \* number of bar.update(1) calls
    phase,          \* "plan", "exec", "done", "aborted"
    run,            \* 1: first run, 2: second run on the same output root
    added,          \* the Ledger.add calls made so far (arguments, in order)
    faulty,         \* the entries whose file operations the OS may fail
    stats,          \* plan_category_renames: [renamed, deduped]
    original_names, \* plan_category_renames: <<vin, new name>> -> old name
    tree,           \* the source root: the folders of its partitions
    scan_pdf,       \* main's scan_pdf (not --no-pdf)
    pdf_cache,      \* _pdf_cache: source path -> set of content VINs
    pdf_content_cats, \* _pdf_content_cats: source path -> set of categories
    warnings,       \* Ledger.warnings
    set_first,      \* the VIN this process's set iteration yields first
    stage,          \* planning: "start", "prescanned", "planned", "crossed", "filled"
    marks,          \* length of the ledger after scan_and_plan and after the cross-copy pass
    ocr_disk_cache, \* _ocr_disk_cache: path -> entry
    pdf_file,       \* the PDFs on disk: path -> [fp, text]
    last_call,      \* the last call of a scanning function: [fn, arg, result]
    rename_map_file, \* rename_map.json of the output root: [exists, data]
    saved_maps,     \* the maps saved so far, in order
    prescan,        \* bulk_prescan_pdfs: its position, futures, caches, counters
    inventory,      \* the inventory: vin -> category -> listed files
    reclass,        \* reclassify_by_content: its position, tasks, results, counters
    no_vin          \* rescan_rescue_no_vin: the _NO_VIN folder, the VIN folders, its position

vars == <<changes, planned_dests, plan0, fs, dirs, workers, dry_run, jsonl,
          next_i, pc, cur, actual, attempt, last_err, jsonl_lock, log, bar,
          phase, run, added, faulty, stats, original_names, tree, scan_pdf,
          pdf_cache, pdf_content_cats, warnings, set_first, stage, marks,
          ocr_disk_cache, pdf_file, last_call, rename_map_file, saved_maps,
          prescan, inventory, reclass, no_vin>>

ledgerVars == <<changes, planned_dests>>
cfgVars == <<workers, dry_run, jsonl>>
threadVars == <<pc, cur, actual, attempt, last_err>>
renameVars == <<stats, original_names>>
planVars == <<tree, scan_pdf, pdf_cache, pdf_content_cats, warnings, set_first,
              stage, marks>>
scanVars == <<ocr_disk_cache, pdf_file, last_call>>
mapVars == <<rename_map_file, saved_maps, prescan>>
reclassVars == <<inventory, reclass>>
auxVars == <<mapVars, reclassVars, no_vin>>
execVars == <<plan0, fs, dirs, cfgVars, next_i, threadVars, jsonl_lock, log,
              bar, run, faulty>>

----------------------------------------------------------------------------
(* Bounds of the model *)

MaxLen == 2          \* longest sequence of Ledger.add calls
MaxWorkers == 2      \* largest worker count
MaxFaulty == 1       \* entries per run whose file operations the OS may fail
MaxDocs == 3         \* longest sequence of Ledger.add calls before the rename pass
MaxFolders == 2      \* most folders of a source root
MaxWords == 2        \* most words of the text of a PDF
MaxParts == 2        \* most words of a file name
MaxEdits == 1        \* most replacements of the PDF
MaxSaves == 2        \* most saves of the rename map
MaxPdfs == 3         \* most PDFs of a pre-scan
MaxRange == 3        \* largest --range-start and --range-end
MaxAlte == 2         \* most files a VIN lists under Alte Documente
MaxContents == 2     \* number of distinct file contents

(* Program constants *)

_RETRY_ATTEMPTS == 5
MAX_CROSS_COPY_VINS == 100
SuffixLimit == 10000

----------------------------------------------------------------------------
(* Paths and contents *)

SrcDir == "SRC"
OutDirs == {"V1"}

SrcFiles == {<<SrcDir, <<"s1">>, 0>>, <<SrcDir, <<"s2">>, 0>>, <<SrcDir, <<"s3">>, 0>>}

\* The source file that may have vanished between planning and execution.
Vanishing == {<<SrcDir, <<"s3">>, 0>>}

\* The bytes of each source file: s1 and s3 are byte-identical, s2 differs.
SrcContent(p) == IF p[2] = <<"s2">> THEN "b" ELSE "a"

Folder(d) == <<d, <<>>, 0>>
NoPath == <<"", <<>>, 0>>
Parent(p) == p[1]
IsSource(p) == p[1] = SrcDir

Threads == 1..MaxWorkers

Min(S) == CHOOSE x \in S : \A y \in S : x <= y
Max(S) == CHOOSE x \in S : \A y \in S : y <= x

----------------------------------------------------------------------------
(* Collision-safe file helpers *)

_exists(f, p) == p \in DOMAIN f

\* Same size and same MD5; a file being written or garbled matches nothing.
_files_identical(f, a, b) ==
    /\ a \in DOMAIN f /\ b \in DOMAIN f
    /\ f[a] = f[b]
    /\ f[a] \notin {"partial", "garbled"}

RECURSIVE Probe(_, _, _, _)
Probe(f, src, dst, k) ==
    IF k >= SuffixLimit THEN <<dst, "ok">>
    ELSE LET candidate == <<dst[1], dst[2], k>>
         IN IF ~ _exists(f, candidate) THEN <<candidate, "renamed">>
            ELSE IF _files_identical(f, src, candidate) THEN <<candidate, "skip">>
            ELSE Probe(f, src, dst, k + 1)

\* Mutation: an occupied destination is overwritten instead of probed around.
SafeDestOverwrite(f, src, dst) ==
    IF _exists(f, dst) /\ _files_identical(f, src, dst)
    THEN <<dst, "skip">> ELSE <<dst, "ok">>

_safe_dest(f, src, dst) ==
    IF ~ _exists(f, dst) THEN <<dst, "ok">>
    ELSE IF _files_identical(f, src, dst) THEN <<dst, "skip">>
    ELSE Probe(f, src, dst, 1)

----------------------------------------------------------------------------
(* Change ledger *)

Change(action, source, destination, vin) ==
    [action |-> action, source |-> source, destination |-> destination,
     vin |-> vin, status |-> "planned"]

\* Mutation: a copy whose destination is already planned is always dropped.
LedgerAddDropPlanned(L, action, source, destination, vin) ==
    IF action = "copy_file" /\ destination \in DOMAIN L.planned_dests
    THEN L
    ELSE [changes |-> Append(L.changes, Change(action, source, destination, vin)),
          planned_dests |->
              IF action = "copy_file"
              THEN [d \in DOMAIN L.planned_dests \cup {destination} |->
                       IF d = destination THEN source ELSE L.planned_dests[d]]
              ELSE L.planned_dests]

\* Ledger.add on a ledger value L = [changes, planned_dests]: the new value.
LedgerAdd(L, action, source, destination, vin) ==
    IF /\ action = "copy_file"
       /\ destination \in DOMAIN L.planned_dests
       /\ L.planned_dests[destination] = source
    THEN L
    ELSE [changes |-> Append(L.changes, Change(action, source, destination, vin)),
          planned_dests |->
              IF action = "copy_file"
              THEN [d \in DOMAIN L.planned_dests \cup {destination} |->
                       IF d = destination THEN source ELSE L.planned_dests[d]]
              ELSE L.planned_dests]

----------------------------------------------------------------------------
(* Planning: calls of Ledger.add *)

CopyDests == {<<d, <<"x">>, n>> : d \in OutDirs, n \in {0, 1}}

\* Ledger.add(action, source, destination, vin=vin)
Add(action, source, destination, vin) ==
    /\ phase = "plan"
    /\ LET L == LedgerAdd([changes |-> changes, planned_dests |-> planned_dests],
                          action, source, destination, vin)
       IN /\ changes' = L.changes
          /\ planned_dests' = L.planned_dests
    /\ added' = Append(added, Change(action, source, destination, vin))
    /\ UNCHANGED <<planVars, scanVars, auxVars, execVars, phase, renameVars>>

AddCopy ==
    /\ Len(added) < MaxLen
    /\ \E s \in SrcFiles, d \in CopyDests : Add("copy_file", s, d, Parent(d))

AddFolder ==
    /\ Len(added) < MaxLen
    /\ \E d \in OutDirs : Add("create_folder", Folder(SrcDir), Folder(d), d)

----------------------------------------------------------------------------
(* Ledger.execute *)

\* Mutation: the main thread does not wait for the pool.
NoBarrier == TRUE

\* The `with ThreadPoolExecutor` block has been left: every task has returned.
AllIdle == \A t \in Threads : pc[t] = "idle"

SetStatus(k, s) == [changes EXCEPT ![k].status = s]

\* The end of the batch of consecutive copy_file entries that starts at k.
RECURSIVE BatchEnd(_)
BatchEnd(k) ==
    IF k <= Len(changes) /\ changes[k].action = "copy_file"
    THEN BatchEnd(k + 1) ELSE k

\* ledger.execute(dry_run, jsonl_path, workers) is called on the planned ledger.
Execute ==
    /\ phase = "plan"
    /\ changes # <<>>
    /\ phase' = "exec"
    /\ \E w \in 1..MaxWorkers : workers' = w
    /\ \E d, path \in BOOLEAN :
          /\ dry_run' = d
          /\ jsonl' = (path /\ ~ d)
          /\ \E F \in SUBSET (1..Len(changes)) :
                /\ Cardinality(F) <= MaxFaulty
                /\ d => F = {}
                /\ faulty' = F
    /\ plan0' = changes
    /\ UNCHANGED <<planVars, scanVars, auxVars, ledgerVars, fs, dirs, next_i, threadVars, jsonl_lock, log,
                   bar, run, added, renameVars>>

\* Mutation: a batch of copies advances the progress bar by one.
DryRunPerBatch ==
    /\ phase = "exec" /\ dry_run
    /\ next_i <= Len(changes)
    /\ next_i' = IF workers > 1 /\ changes[next_i].action = "copy_file"
                 THEN BatchEnd(next_i) ELSE next_i + 1
    /\ bar' = bar + 1
    /\ UNCHANGED <<planVars, scanVars, auxVars, ledgerVars, plan0, fs, dirs, cfgVars, threadVars,
                   jsonl_lock, log, phase, run, added, faulty, renameVars>>

\* Dry run: the loop only advances the progress bar.
DryRunStep ==
    /\ phase = "exec" /\ dry_run
    /\ next_i <= Len(changes)
    /\ LET e == IF workers > 1 /\ changes[next_i].action = "copy_file"
                THEN BatchEnd(next_i) ELSE next_i + 1
       IN /\ next_i' = e
          /\ bar' = bar + (e - next_i)
    /\ UNCHANGED <<planVars, scanVars, auxVars, ledgerVars, plan0, fs, dirs, cfgVars, threadVars,
                   jsonl_lock, log, phase, run, added, faulty, renameVars>>

\* A copy_file entry is handed to _exec_copy: by the main thread (workers = 1)
\* or by a free thread of the pool, in ledger order.  The threads of the pool
\* are interchangeable: the free thread of lowest number stands for any.
SubmitCopy(t) ==
    /\ phase = "exec" /\ ~ dry_run
    /\ t <= workers /\ pc[t] = "idle"
    /\ \A u \in 1..(t - 1) : pc[u] # "idle"
    /\ next_i <= Len(changes)
    /\ changes[next_i].action = "copy_file"
    /\ pc' = [pc EXCEPT ![t] = "check"]
    /\ cur' = [cur EXCEPT ![t] = next_i]
    /\ next_i' = next_i + 1
    /\ UNCHANGED <<planVars, scanVars, auxVars, ledgerVars, plan0, fs, dirs, cfgVars, actual, attempt,
                   last_err, jsonl_lock, log, bar, phase, run, added, faulty,
                   renameVars>>

\* _exec_copy up to the retry loop: source check, makedirs, _safe_dest.
ExecCheck(t) ==
    /\ pc[t] = "check"
    /\ LET k == cur[t]
           src == changes[k].source
           dst == changes[k].destination
       IN IF ~ _exists(fs, src)
          THEN /\ changes' = SetStatus(k, "skipped")
               /\ pc' = [pc EXCEPT ![t] = "log"]
               /\ UNCHANGED <<dirs, actual>>
          ELSE \/ \* os.makedirs raises: caught by `except Exception`
                  /\ k \in faulty /\ Parent(dst) \notin dirs
                  /\ changes' = SetStatus(k, "failed")
                  /\ pc' = [pc EXCEPT ![t] = "log"]
                  /\ UNCHANGED <<dirs, actual>>
               \/ /\ dirs' = dirs \cup {Parent(dst)}
                  /\ LET r == _safe_dest(fs, src, dst)
                     IN IF r[2] = "skip"
                        THEN /\ changes' = SetStatus(k, "skipped")
                             /\ pc' = [pc EXCEPT ![t] = "log"]
                             /\ UNCHANGED actual
                        ELSE /\ changes' = [changes EXCEPT ![k].destination =
                                               IF r[2] = "renamed" THEN r[1] ELSE @]
                             /\ actual' = [actual EXCEPT ![t] = r[1]]
                             /\ pc' = [pc EXCEPT ![t] = "copy"]
    /\ UNCHANGED <<planVars, scanVars, auxVars, planned_dests, plan0, fs, cfgVars, next_i, cur, attempt,
                   last_err, jsonl_lock, log, bar, phase, run, added, faulty,
                   renameVars>>

\* Mutation: the arguments of shutil.copy2 swapped.
CopyTargetSwapped(t) == changes[cur[t]].source

\* shutil.copy2(src, actual): the file the copy is written to.
CopyTarget(t) == actual[t]

\* Mutation: one pass too many.
RetryLeftOffByOne(n) == n <= _RETRY_ATTEMPTS

\* The retry loop goes on after a lock failure while attempts are left.
RetryLeft(n) == n < _RETRY_ATTEMPTS

\* One pass of the retry loop: shutil.copy2 opens the destination for writing
\* (creating or truncating it), or raises.  attempt[t] counts the passes
\* made so far in the loop the thread is in.
CopyAttempt(t) ==
    /\ pc[t] = "copy"
    /\ \/ /\ fs' = [p \in DOMAIN fs \cup {CopyTarget(t)} |->
                       IF p = CopyTarget(t) THEN "partial" ELSE fs[p]]
          /\ pc' = [pc EXCEPT ![t] = "write"]
          /\ attempt' = [attempt EXCEPT ![t] = 0]
          /\ UNCHANGED <<changes, last_err>>
       \/ \* sharing / lock violation: sleep, then the next pass if one is left
          /\ cur[t] \in faulty
          /\ last_err' = [last_err EXCEPT ![t] = "lock"]
          /\ IF RetryLeft(attempt[t] + 1)
             THEN /\ attempt' = [attempt EXCEPT ![t] = @ + 1]
                  /\ UNCHANGED <<changes, pc>>
             ELSE /\ attempt' = [attempt EXCEPT ![t] = 0]
                  /\ changes' = SetStatus(cur[t], "failed")
                  /\ pc' = [pc EXCEPT ![t] = "log"]
          /\ UNCHANGED fs
       \/ \* any other OSError: re-raised, caught by `except Exception`
          /\ cur[t] \in faulty
          /\ last_err' = [last_err EXCEPT ![t] = "other"]
          /\ attempt' = [attempt EXCEPT ![t] = 0]
          /\ changes' = SetStatus(cur[t], "failed")
          /\ pc' = [pc EXCEPT ![t] = "log"]
          /\ UNCHANGED fs
    /\ UNCHANGED <<planVars, scanVars, auxVars, planned_dests, plan0, dirs, cfgVars, next_i, cur, actual,
                   jsonl_lock, log, bar, phase, run, added, faulty, renameVars>>

\* What a finished write leaves in the file: the source's bytes, or a mix when
\* another thread is writing the same file at the same time.
WriteOutcomes(t) ==
    {SrcContent(changes[cur[t]].source)} \cup
    IF \E u \in Threads : u # t /\ pc[u] = "write" /\ CopyTarget(u) = CopyTarget(t)
    THEN {"garbled"} ELSE {}

\* shutil.copy2 writes the bytes and returns; c.status = "done".
CopyWrite(t) ==
    /\ pc[t] = "write"
    /\ \E c \in WriteOutcomes(t) : fs' = [fs EXCEPT ![CopyTarget(t)] = c]
    /\ changes' = SetStatus(cur[t], "done")
    /\ pc' = [pc EXCEPT ![t] = "log"]
    /\ UNCHANGED <<planVars, scanVars, auxVars, planned_dests, plan0, dirs, cfgVars, next_i, cur, actual,
                   attempt, last_err, jsonl_lock, log, bar, phase, run, added,
                   faulty, renameVars>>

\* The JSON line of entry k, in two fragments.
LineOpen(k, st) == [entry |-> k, status |-> st, part |-> "open"]
LineClose(k, st) == [entry |-> k, status |-> st, part |-> "close"]

\* Mutation: _log_safe writes without taking the lock.
LockIgnored == TRUE

\* `with jsonl_lock:` of _log_safe: the lock can be taken.
LockFree == jsonl_lock = 0

\* _exec_copy returns: the thread's locals are gone, the future completes.
TaskDone(t) ==
    /\ pc' = [pc EXCEPT ![t] = "idle"]
    /\ cur' = [cur EXCEPT ![t] = 0]
    /\ actual' = [actual EXCEPT ![t] = NoPath]
    /\ attempt' = [attempt EXCEPT ![t] = 0]
    /\ last_err' = [last_err EXCEPT ![t] = "none"]
    /\ bar' = bar + 1

\* _log_safe with no log file: returns at once.
LogNone(t) ==
    /\ pc[t] = "log" /\ ~ jsonl
    /\ TaskDone(t)
    /\ UNCHANGED <<planVars, scanVars, auxVars, ledgerVars, plan0, fs, dirs, cfgVars, next_i, jsonl_lock,
                   log, phase, run, added, faulty, renameVars>>

\* _log_safe takes the lock; _log_change starts writing the line.
LogBegin(t) ==
    /\ pc[t] = "log" /\ jsonl
    /\ LockFree
    /\ jsonl_lock' = t
    /\ log' = Append(log, LineOpen(cur[t], changes[cur[t]].status))
    /\ pc' = [pc EXCEPT ![t] = "logging"]
    /\ UNCHANGED <<planVars, scanVars, auxVars, ledgerVars, plan0, fs, dirs, cfgVars, next_i, cur, actual,
                   attempt, last_err, bar, phase, run, added, faulty, renameVars>>

\* _log_change ends the line and flushes; the lock is released.
LogEnd(t) ==
    /\ pc[t] = "logging"
    /\ log' = Append(log, LineClose(cur[t], changes[cur[t]].status))
    /\ jsonl_lock' = IF jsonl_lock = t THEN 0 ELSE jsonl_lock
    /\ TaskDone(t)
    /\ UNCHANGED <<planVars, scanVars, auxVars, ledgerVars, plan0, fs, dirs, cfgVars, next_i, phase, run,
                   added, faulty, renameVars>>

\* A create_folder entry, executed by the main thread between batches.
CreateFolder ==
    /\ phase = "exec" /\ ~ dry_run
    /\ AllIdle
    /\ next_i <= Len(changes)
    /\ changes[next_i].action = "create_folder"
    /\ next_i' = next_i + 1
    /\ \/ /\ dirs' = dirs \cup {Parent(changes[next_i].destination)}
          /\ changes' = SetStatus(next_i, "done")
          /\ log' = IF jsonl
                    THEN log \o <<LineOpen(next_i, "done"), LineClose(next_i, "done")>>
                    ELSE log
          /\ bar' = bar + 1
          /\ UNCHANGED phase
       \/ \* os.makedirs raises: nothing catches it, execute is left
          /\ next_i \in faulty
          /\ Parent(changes[next_i].destination) \notin dirs
          /\ phase' = "aborted"
          /\ UNCHANGED <<changes, dirs, log, bar>>
    /\ UNCHANGED <<planVars, scanVars, auxVars, planned_dests, plan0, fs, cfgVars, threadVars, jsonl_lock,
                   run, added, faulty, renameVars>>

\* The loop ends and execute returns.
Return ==
    /\ phase = "exec"
    /\ next_i > Len(changes)
    /\ AllIdle
    /\ phase' = "done"
    /\ UNCHANGED <<planVars, scanVars, auxVars, ledgerVars, execVars, added, renameVars>>

\* After a run in which nothing failed, the pipeline is run again on the same
\* source and output root: the plan is the same, a new log file is opened.
Rerun ==
    /\ phase = "done" /\ run = 1 /\ ~ dry_run
    /\ \A k \in 1..Len(changes) : changes[k].status # "failed"
    /\ run' = 2
    /\ phase' = "exec"
    /\ changes' = plan0
    /\ \E w \in 1..MaxWorkers : workers' = w
    /\ next_i' = 1
    /\ log' = <<>>
    /\ bar' = 0
    /\ UNCHANGED <<planVars, scanVars, auxVars, planned_dests, plan0, fs, dirs, dry_run, jsonl, threadVars,
                   jsonl_lock, added, faulty, renameVars>>

----------------------------------------------------------------------------
(* Document categories: categorize_file *)

\* A file name is <<stem, n>>: the basename of a path.
Name(p) == <<p[2], p[3]>>

Range(s) == {s[i] : i \in DOMAIN s}

HasWord(fn, w) == \E i \in 1..Len(fn[1]) : fn[1][i] = w

\* The character before / after token i of the name ("^": start of name;
\* after the last token comes the _ of _N, or the dot of the extension).
Before(fn, i) == IF i = 1 THEN "^" ELSE fn[1][i - 1]
After(fn, i) ==
    IF i < Len(fn[1]) THEN fn[1][i + 1] ELSE IF fn[2] > 0 THEN "_" ELSE "."

\* Token i of the name, "" past the end.
Tok(fn, i) == IF i \in 1..Len(fn[1]) THEN fn[1][i] ELSE ""

TalonCiv == "TALON / CIV"

\* Category -> short file name ("" for None), in the order of the dict.
_CAT_SHORT_NAMES ==
    << <<"Contract Cadru", "cc">>,
       <<"Subcontract", "subct">>,
       <<"Cesiune / Supliment", "ces">>,
       <<"Formular de Livrare (FL)", "fl">>,
       <<TalonCiv, "">>,
       <<"CASCO", "casco">>,
       <<"RCA", "rca">>,
       <<"OP Plati", "op">>,
       <<"Facturi", "fact">> >>

\* _build_short_name_reverse: stem of a short name -> category.
_SHORT_NAME_TO_CAT ==
    LET pairs == {<<<<e[2]>>, e[1]>> : e \in {x \in Range(_CAT_SHORT_NAMES) : x[2] # ""}}
                 \cup {<<<<"talon">>, TalonCiv>>,
                       <<<<"civ">>, TalonCiv>>,
                       <<<<"talon", "_", "civ">>, TalonCiv>>,
                       <<<<"talon", "+", "civ">>, TalonCiv>>,
                       <<<<"supliment", "_", "cesiune">>, "Cesiune / Supliment">>}
    IN [st \in {q[1] : q \in pairs} |-> (CHOOSE q \in pairs : q[1] = st)[2]]

\* factur[aai]
_FACTURA_PRIORITY(fn) == HasWord(fn, "factura") \/ HasWord(fn, "facturi")

\* TALON, \bCIV\b, CIV\+   (_ is a word character: no boundary next to it)
_TALON_CIV_PRIORITY(fn) ==
    \/ HasWord(fn, "talon")
    \/ \E i \in 1..Len(fn[1]) :
          /\ fn[1][i] = "civ"
          /\ \/ Before(fn, i) # "_" /\ After(fn, i) # "_"
             \/ After(fn, i) = "+"

\* _sub\s*\d
SubDigit(fn) ==
    \E i \in 1..Len(fn[1]) :
       /\ Before(fn, i) = "_"
       /\ \/ fn[1][i] \in {"sub1", "sub2"}
          \/ fn[1][i] = "sub" /\ After(fn, i) = " " /\ Tok(fn, i + 2) \in {"1", "2"}

\* The categories of DOC_CATEGORIES, in order.
DOC_CATEGORIES ==
    <<"Formular de Livrare (FL)", "Contract Cadru", "Subcontract", "RCA",
      "CASCO", "Facturi", "OP Plati", "Cesiune / Supliment", TalonCiv>>

\* Some pattern of the category matches the name.
PatternMatch(cat, fn) ==
    CASE cat = "Formular de Livrare (FL)" ->
            \/ Tok(fn, 1) = "fl" /\ After(fn, 1) = " "
            \/ \E i \in 1..Len(fn[1]) :
                  /\ fn[1][i] = "fl" /\ Before(fn, i) = "_"
                  /\ \/ After(fn, i) = "."
                     \/ After(fn, i) = "_" /\ Tok(fn, i + 2) = "attachment"
      [] cat = "Contract Cadru" ->
            \E i \in 1..Len(fn[1]) :
               \/ /\ fn[1][i] \in {"contract", "subcontract"}
                  /\ After(fn, i) = " " /\ Tok(fn, i + 2) = "cadru"
               \/ /\ fn[1][i] = "ctr" /\ After(fn, i) \in {" ", "_", "."}
                  /\ Tok(fn, i + 2) = "cadru"
      [] cat = "Subcontract" -> HasWord(fn, "subcontract") \/ SubDigit(fn)
      [] cat = "RCA" -> Tok(fn, 1) = "polita" /\ After(fn, 1) = "_"
      [] cat = "CASCO" ->
            \/ HasWord(fn, "casco") \/ HasWord(fn, "flexicasco")
            \/ \E i \in 1..Len(fn[1]) :
                  fn[1][i] = "polita" /\ After(fn, i) = " " /\ Tok(fn, i + 2) = "dt"
      [] cat = "Facturi" ->
            \/ _FACTURA_PRIORITY(fn)
            \/ Tok(fn, 1) = "ff" /\ After(fn, 1) = "_"
            \/ fn = <<<<"ff">>, 0>>
            \/ Tok(fn, 1) = "f" /\ After(fn, 1) = "." /\ Tok(fn, 3) = "finala"
      [] cat = "OP Plati" -> Tok(fn, 1) = "op" /\ After(fn, 1) = " "
      [] cat = "Cesiune / Supliment" ->
            HasWord(fn, "cesiune") \/ HasWord(fn, "supliment")
      [] cat = TalonCiv -> _TALON_CIV_PRIORITY(fn)
      [] OTHER -> FALSE

\* desktop.ini and Thumbs.db, each a name of one token.
_IGNORE_FILES == {<<<<"desktop.ini">>, 0>>, <<<<"Thumbs.db">>, 0>>}

\* Path(fn).stem.lower(): the name without extension, its number written out
\* (names are kept in lower case throughout).
StemOf(fn) == fn[1] \o (IF fn[2] > 0 THEN <<"_", ToString(fn[2])>> ELSE <<>>)

IsNumber(tok) == \E k \in 0..SuffixLimit : tok = ToString(k)

\* Mutation: the numbering is left on the stem.
KeepNumbering(stem) == stem

\* re.sub(r'_\d+$', '', stem)
StripNumbering(stem) ==
    IF Len(stem) >= 2 /\ stem[Len(stem) - 1] = "_" /\ IsNumber(stem[Len(stem)])
    THEN SubSeq(stem, 1, Len(stem) - 2) ELSE stem

\* categorize_file: the category of a file name, "" for None.
categorize_file(fn) ==
    IF fn \in _IGNORE_FILES THEN ""
    ELSE IF StripNumbering(StemOf(fn)) \in DOMAIN _SHORT_NAME_TO_CAT
    THEN _SHORT_NAME_TO_CAT[StripNumbering(StemOf(fn))]
    ELSE IF _FACTURA_PRIORITY(fn) THEN "Facturi"
    ELSE IF _TALON_CIV_PRIORITY(fn) THEN TalonCiv
    ELSE LET hits == {k \in 1..Len(DOC_CATEGORIES) : PatternMatch(DOC_CATEGORIES[k], fn)}
         IN IF hits # {} THEN DOC_CATEGORIES[Min(hits)] ELSE "Alte Documente"

\* (has_talon, has_civ): TALON anywhere; CIV with no letter on either side
\* (a word token has separators, _N or the extension around it).
_detect_talon_civ(fn) == <<HasWord(fn, "talon"), HasWord(fn, "civ")>>

----------------------------------------------------------------------------
(* Category-aware renaming and deduplication: plan_category_renames *)

\* Mutation: the hash is taken of the path instead of the bytes.
FileHashOfPath(f, p) == <<"md5", "", p>>

\* MD5 of the file's bytes, or "__error_<path>" when it cannot be read.
_file_hash(f, p) ==
    IF p \in DOMAIN f THEN <<"md5", f[p], NoPath>> ELSE <<"__error", "", p>>

RECURSIVE OrderedSeq(_)
OrderedSeq(S) ==
    IF S = {} THEN <<>> ELSE <<Min(S)>> \o OrderedSeq(S \ {Min(S)})

\* Mutation: the survivor of a single hash class is numbered too.
NewNameNumbered(base_name, unique, counter) == <<base_name, counter>>

\* new_name: {base}.pdf with one hash class, {base}_{counter}.pdf otherwise.
NewName(base_name, unique, counter) ==
    <<base_name, IF unique = 1 THEN 0 ELSE counter>>

\* The pass carries acc = [changes, remove, stats, original_names].
_rename_dedup_group(f, acc, indices, base_name) ==
    IF indices = <<>> THEN acc
    ELSE LET chs == acc.changes
             S == Range(indices)
             hashes == [i \in S |-> _file_hash(f, chs[i].source)]
             \* group[0] of each hash class, in order of first appearance
             keepers == OrderedSeq({i \in S : \A j \in S : j < i => hashes[j] # hashes[i]})
             K == Range(keepers)
             counter(i) == CHOOSE k \in 1..Len(keepers) : keepers[k] = i
             new_name(i) == NewName(base_name, Len(keepers), counter(i))
             key(i) == <<chs[i].vin, new_name(i)>>
         IN [changes |->
                [i \in DOMAIN chs |->
                    IF i \in K
                    THEN [chs[i] EXCEPT !.destination =
                             <<Parent(chs[i].destination), new_name(i)[1], new_name(i)[2]>>]
                    ELSE chs[i]],
             remove |-> acc.remove \cup (S \ K),
             stats |-> [renamed |-> acc.stats.renamed + Len(keepers),
                        deduped |-> acc.stats.deduped + Cardinality(S \ K)],
             original_names |->
                [q \in DOMAIN acc.original_names \cup {key(i) : i \in K} |->
                    IF \E i \in K : key(i) = q
                    THEN Name(chs[CHOOSE i \in K : key(i) = q].destination)
                    ELSE acc.original_names[q]]]

\* The base name of the TALON / CIV sub-group a file name falls in.
SubGroupBase(fn) ==
    LET d == _detect_talon_civ(fn)
    IN IF d[1] /\ d[2] THEN <<"talon", "+", "civ">>
       ELSE IF d[1] THEN <<"talon">>
       ELSE IF d[2] THEN <<"civ">>
       ELSE <<"talon", "_", "civ">>

SubGroupBases ==
    << <<"talon", "+", "civ">>, <<"talon">>, <<"civ">>, <<"talon", "_", "civ">> >>

RECURSIVE RenameSubGroups(_, _, _, _, _)
RenameSubGroups(f, acc, chs0, indices, k) ==
    IF k > Len(SubGroupBases) THEN acc
    ELSE LET base == SubGroupBases[k]
             sub_indices == SelectSeq(indices,
                 LAMBDA i : SubGroupBase(Name(chs0[i].destination)) = base)
         IN RenameSubGroups(f, _rename_dedup_group(f, acc, sub_indices, base),
                            chs0, indices, k + 1)

_rename_talon_civ_group(f, acc, indices) ==
    RenameSubGroups(f, acc, acc.changes, indices, 1)

\* by_cat of one VIN: category -> the indices of its copy entries whose
\* destination name has that category, in ledger order.
ByCat(chs, vin) ==
    LET mine == {i \in 1..Len(chs) : chs[i].action = "copy_file" /\ chs[i].vin = vin}
        cat_of == [i \in mine |-> categorize_file(Name(chs[i].destination))]
    IN [cat \in {cat_of[i] : i \in mine} |->
           OrderedSeq({i \in mine : cat_of[i] = cat})]

\* for cat, short in _CAT_SHORT_NAMES.items(): ...
RECURSIVE RenameCategories(_, _, _, _)
RenameCategories(f, acc, by_cat, k) ==
    IF k > Len(_CAT_SHORT_NAMES) THEN acc
    ELSE LET cat == _CAT_SHORT_NAMES[k][1]
             short == _CAT_SHORT_NAMES[k][2]
             acc1 == IF cat \notin DOMAIN by_cat THEN acc
                     ELSE IF cat = TalonCiv
                     THEN _rename_talon_civ_group(f, acc, by_cat[cat])
                     ELSE _rename_dedup_group(f, acc, by_cat[cat], <<short>>)
         IN RenameCategories(f, acc1, by_cat, k + 1)

\* The VINs of the copy entries, in order of first appearance.
VinOrder(chs) ==
    LET firsts == {i \in 1..Len(chs) :
                     /\ chs[i].action = "copy_file"
                     /\ \A j \in 1..(i - 1) :
                           chs[j].action = "copy_file" => chs[j].vin # chs[i].vin}
        order == OrderedSeq(firsts)
    IN [k \in 1..Len(order) |-> chs[order[k]].vin]

\* for vin, indices in by_vin.items(): ...
RECURSIVE RenameVins(_, _, _, _)
RenameVins(f, acc, chs0, vins) ==
    IF vins = <<>> THEN acc
    ELSE RenameVins(f, RenameCategories(f, acc, ByCat(chs0, Head(vins)), 1),
                    chs0, Tail(vins))

\* ledger._planned_dests rebuilt from the entries: a later entry wins.
RebuildIndex(chs) ==
    LET C == {i \in 1..Len(chs) : chs[i].action = "copy_file"}
    IN [d \in {chs[i].destination : i \in C} |->
           chs[Max({i \in C : chs[i].destination = d})].source]

\* plan_category_renames(ledger) on the file system f: the new ledger value
\* and the returned stats and original_names.
plan_category_renames(f, L) ==
    LET acc == RenameVins(f, [changes |-> L.changes, remove |-> {},
                              stats |-> [renamed |-> 0, deduped |-> 0],
                              original_names |-> <<>>],
                          L.changes, VinOrder(L.changes))
        kept == OrderedSeq(DOMAIN acc.changes \ acc.remove)
        remaining == [k \in 1..Len(kept) |-> acc.changes[kept[k]]]
    IN IF acc.remove # {}
       THEN [changes |-> remaining, planned_dests |-> RebuildIndex(remaining),
             stats |-> acc.stats, original_names |-> acc.original_names]
       ELSE [changes |-> acc.changes, planned_dests |-> L.planned_dests,
             stats |-> acc.stats, original_names |-> acc.original_names]

\* The planned destinations of documents, in the folders of two VINs.
DocDests ==
    {<<"V1", st, 0>> : st \in {<<"talon">>, <<"civ">>,
                               <<"polita", " ", "casco">>, <<"doc">>}}
    \cup {<<"V2", <<"polita", " ", "casco">>, 0>>}

\* The planner records the copy of a document into its VIN folder.
AddDoc ==
    /\ Len(added) < MaxDocs
    /\ \E s \in SrcFiles, d \in DocDests : Add("copy_file", s, d, Parent(d))

\* --rename-files: the pass runs once, on the planned ledger.
PlanCategoryRenames ==
    /\ phase = "plan"
    /\ changes # <<>>
    /\ LET r == plan_category_renames(fs, [changes |-> changes,
                                           planned_dests |-> planned_dests])
       IN /\ changes' = r.changes
          /\ planned_dests' = r.planned_dests
          /\ stats' = r.stats
          /\ original_names' = r.original_names
    /\ phase' = "renamed"
    /\ UNCHANGED <<planVars, scanVars, auxVars, execVars, added>>

----------------------------------------------------------------------------
(* VIN helpers *)

\* A name (of a partition, a folder, a subdirectory) is a sequence of tokens
\* like a stem.  The 17-character tokens over [A-Z0-9] of the model:
VinA == "AAAAAA12345678901"
VinB == "BBBBBB98765432109"
Letters17 == "ABCDEFGHIJKLMNOPQ"

\* Further VINs, met only in the text of master documents.
FillerVin(i) == "FILLERVIN000" \o ToString(10000 + i)
FillerVins(k) == {FillerVin(i) : i \in 1..k}

Digits17 == "12345678901234567"

Is17(s) == s \in {VinA, VinB, Letters17, Digits17} \/ s \in FillerVins(MAX_CROSS_COPY_VINS)
AnyAlpha(s) == s # Digits17
AnyDigit(s) == s # Letters17

is_valid_vin(s) == Is17(s) /\ AnyAlpha(s) /\ AnyDigit(s)

\* ^[A-Z0-9]{17}$ on the whole name
is_vin(name) == Len(name) = 1 /\ Is17(name[1]) /\ is_valid_vin(name[1])

\* VIN_PATTERN.findall: a token is a maximal run of [A-Z0-9], so the
\* lookbehind and lookahead hold of every token.  The result as a set.
extract_all_vins(name) ==
    {name[i] : i \in {j \in DOMAIN name : Is17(name[j]) /\ is_valid_vin(name[j])}}

----------------------------------------------------------------------------
(* Partition names *)

\* A token " - Part N" at the end of a partition name.
PartSuffixes == {" - Part 1", " - Part 2"}

\* Mutation: the name is kept as it is.
MergeKeepName(name) == name

\* _PART_SUFFIX.sub('', name).rstrip(): the pattern is anchored at the end
\* of the name, so one suffix, the last, is removed.
merge_partition_name(name) ==
    IF Len(name) > 1 /\ name[Len(name)] \in PartSuffixes
    THEN SubSeq(name, 1, Len(name) - 1)
    ELSE name

----------------------------------------------------------------------------
(* PDF text scanning *)

\* The text of a PDF is the sequence of its words.  The scan upper-cases it:
\* a word is matched whatever its case ("rca" is RCA written in lower case).
AdjacentWords(text, a, b) ==
    \E i \in 1..(Len(text) - 1) : text[i] = a /\ text[i + 1] = b

CriticalOrder == <<"Contract Cadru", "Subcontract", "CASCO", "RCA">>

\* Some pattern of _CONTENT_CAT_KEYWORDS[cat] is found in the text.
ContentKeyword(cat, text) ==
    CASE cat = "Contract Cadru" ->
            \/ AdjacentWords(text, "contract", "cadru")
            \/ AdjacentWords(text, "subcontract", "cadru")
            \/ \E i \in 1..(Len(text) - 2) :
                  /\ text[i] \in {"contract", "subcontract"}
                  /\ text[i + 1] = "de" /\ text[i + 2] = "leasing"
            \/ AdjacentWords(text, "leasing", "operational")
      [] cat = "Subcontract" -> \E i \in DOMAIN text : text[i] = "subcontract"
      [] cat = "CASCO" ->
            \/ \E i \in DOMAIN text : text[i] \in {"casco", "flexicasco"}
            \/ AdjacentWords(text, "polita", "dt")
      [] cat = "RCA" ->
            \/ \E i \in DOMAIN text : text[i] \in {"rca", "RCA"}
            \/ AdjacentWords(text, "raspundere", "civila")
            \/ AdjacentWords(text, "asigurare", "obligatorie")
      [] OTHER -> FALSE

_detect_content_categories(text) ==
    {cat \in Range(CriticalOrder) : ContentKeyword(cat, text)}

\* The scan of a readable PDF without a cache hit: (vins, cats).
ColdScan(text) ==
    [vins |-> extract_all_vins(text), cats |-> _detect_content_categories(text)]

----------------------------------------------------------------------------
(* The source tree *)

\* The source root is a set of folders [part, name, subdirs, files]: the
\* partition the folder lies in, its name, the names of its direct
\* subdirectories, and the files below it, each [sub, fn, text] with sub the
\* directories from the folder down to the file, fn = <<stem, n>> its name and
\* text the words of its content.

\* The tokens of the names of the model, in the order sorted() gives them.
TokenOrder ==
    <<" ", "-", Digits17, VinA, Letters17, VinB, FillerVin(1), "_", "cadru", "car", "cars", "casco",
      "contract", "copy", "doc", "docs", "fl", "master", "misc", "other", "polita",
      "rca", "scan", "seriec", "toyota", "SINDICALIZARE FOO", "SINICALIZARE FOO",
      " - Part 1", " - Part 2", "ARCHIVE">>

TokRank(t) == CHOOSE i \in DOMAIN TokenOrder : TokenOrder[i] = t

RECURSIVE LexLess(_, _)
LexLess(a, b) ==
    IF a = <<>> THEN b # <<>>
    ELSE IF b = <<>> THEN FALSE
    ELSE IF a[1] = b[1] THEN LexLess(Tail(a), Tail(b))
    ELSE TokRank(a[1]) < TokRank(b[1])

\* Order of two paths given as sequences of names.
RECURSIVE PartsLess(_, _)
PartsLess(p, q) ==
    IF p = <<>> THEN q # <<>>
    ELSE IF q = <<>> THEN FALSE
    ELSE IF p[1] = q[1] THEN PartsLess(Tail(p), Tail(q))
    ELSE LexLess(p[1], q[1])

\* An item of a listing: a subdirectory (n = -1) or a file, with the parts
\* of its path below the directory listed.
ItemLess(x, y) ==
    IF x.parts = y.parts THEN x.n < y.n ELSE PartsLess(x.parts, y.parts)

\* sorted(...) of a set of items
RECURSIVE SortItems(_)
SortItems(S) ==
    IF S = {} THEN <<>>
    ELSE LET m == CHOOSE x \in S : \A y \in S \ {x} : ItemLess(x, y)
         IN <<m>> \o SortItems(S \ {m})

RECURSIVE SortVins(_)
SortVins(S) ==
    IF S = {} THEN <<>>
    ELSE LET m == CHOOSE v \in S : \A w \in S : TokRank(v) <= TokRank(w)
         IN <<m>> \o SortVins(S \ {m})

NoFile == [sub |-> <<>>, fn |-> <<<<>>, 0>>, text |-> <<>>]

FileItem(f, depth) ==
    [parts |-> SubSeq(f.sub, depth + 1, Len(f.sub)) \o <<f.fn[1]>>, n |-> f.fn[2],
     isdir |-> FALSE, file |-> f]
DirItem(d) == [parts |-> <<d>>, n |-> -1, isdir |-> TRUE, file |-> NoFile]

\* The path of a file of a folder.
SrcPath(folder, f) == <<<<folder.part, folder.name>> \o f.sub, f.fn[1], f.fn[2]>>

\* sorted(folder.iterdir()): the direct subdirectories and the direct files.
Listing(folder) ==
    SortItems({DirItem(d) : d \in folder.subdirs}
              \cup {FileItem(f, 0) : f \in {g \in folder.files : g.sub = <<>>}})

\* The files anywhere below the direct subdirectory d.
Below(folder, d) == {f \in folder.files : f.sub # <<>> /\ f.sub[1] = d}

\* A requested Ledger.add("copy_file", source, destination, vin=vin).
Req(source, destination, vin) ==
    [source |-> source, destination |-> destination, vin |-> vin]

\* _copy_dir_files(folder/d, dst_dir, vin): one request per file below d,
\* in sorted order, to dst_dir / <path below d>.
_copy_dir_files(folder, d, dst_dir, vin) ==
    LET items == SortItems({FileItem(f, 1) : f \in Below(folder, d)})
    IN [k \in 1..Len(items) |->
           LET f == items[k].file
           IN Req(SrcPath(folder, f),
                  <<dst_dir \o SubSeq(f.sub, 2, Len(f.sub)), f.fn[1], f.fn[2]>>,
                  vin)]

RECURSIVE Concat(_)
Concat(ss) == IF ss = <<>> THEN <<>> ELSE Head(ss) \o Concat(Tail(ss))

\* The element a Python set of VINs yields first: the order of a set of
\* strings changes from process to process.
SetFirst(S) == IF set_first \in S THEN set_first ELSE CHOOSE v \in S : TRUE

\* Mutation: a VIN-named subdirectory is copied below the folder's own VIN.
ElevateNested(out_partition, vin, d) == <<out_partition, <<vin>>, d>>

\* out_partition / item.name for a VIN-named subdirectory
Elevate(out_partition, vin, d) == <<out_partition, d>>

\* plan_vin_folder: the requests it makes, in order.
plan_vin_folder(folder, out_partition) ==
    LET vin == folder.name[1]
        target == <<out_partition, <<vin>>>>
        items == Listing(folder)
    IN Concat([k \in 1..Len(items) |->
          LET item == items[k]
          IN IF item.isdir
             THEN IF is_vin(item.parts[1])
                  THEN _copy_dir_files(folder, item.parts[1],
                                       Elevate(out_partition, vin, item.parts[1]),
                                       item.parts[1][1])
                  ELSE _copy_dir_files(folder, item.parts[1],
                                       target \o <<item.parts[1]>>, vin)
             ELSE <<Req(SrcPath(folder, item.file),
                        <<target, item.file.fn[1], item.file.fn[2]>>, vin)>>])

----------------------------------------------------------------------------
(* Folder planning *)

DirectFiles(folder) == {f \in folder.files : f.sub = <<>>}

\* FL_PATTERN: ^FL\s*-\s*.+?\s*-\s*([A-Z0-9]{17}).*\.pdf$ -- the group, or "".
\* The dashes are tokens of their own, with blanks around them or not.
FLGroup(fn) ==
    LET st == fn[1]
        first == IF Tok(fn, 2) = "-" THEN 2
                 ELSE IF Tok(fn, 2) = " " /\ Tok(fn, 3) = "-" THEN 3 ELSE 0
        grp(j) == IF Is17(Tok(fn, j + 1)) THEN j + 1
                  ELSE IF Tok(fn, j + 1) = " " /\ Is17(Tok(fn, j + 2)) THEN j + 2
                  ELSE 0
        seconds == {j \in DOMAIN st : j >= first + 2 /\ st[j] = "-" /\ grp(j) # 0}
    IN IF Tok(fn, 1) = "fl" /\ first # 0 /\ seconds # {}
       THEN st[grp(Min(seconds))] ELSE ""

\* SERIEC_PATTERN: ^seriec_([A-Z0-9]{17})_ -- the group, or "".
SeriecGroup(fn) ==
    IF /\ Tok(fn, 1) = "seriec" /\ Tok(fn, 2) = "_" /\ Is17(Tok(fn, 3))
       /\ After(fn, 3) = "_"
    THEN fn[1][3] ELSE ""

\* ^([A-Z0-9]{17})[\s_\-] and is_valid_vin -- the group, or "".
PrefixGroup(fn) ==
    IF /\ Is17(Tok(fn, 1)) /\ is_valid_vin(Tok(fn, 1))
       /\ After(fn, 1) \in {" ", "_", "-"}
    THEN fn[1][1] ELSE ""

\* max(set(pool), key=pool.count) for the pool of the groups g(file) # "".
Majority(files, g(_)) ==
    LET pool == {g(f.fn) : f \in files} \ {""}
        count(v) == Cardinality({f \in files : g(f.fn) = v})
        best == {v \in pool : \A w \in pool : count(w) <= count(v)}
    IN IF pool = {} THEN "" ELSE SetFirst(best)

\* Mutation: the seriec names are asked before the FL names.
ParentVinSeriecFirst(folder) ==
    LET files == DirectFiles(folder)
        fl(fn) == FLGroup(fn)
        seriec(fn) == IF FLGroup(fn) # "" THEN "" ELSE SeriecGroup(fn)
        other(fn) == IF FLGroup(fn) # "" \/ SeriecGroup(fn) # "" THEN ""
                     ELSE PrefixGroup(fn)
    IN IF Majority(files, seriec) # "" THEN Majority(files, seriec)
       ELSE IF Majority(files, fl) # "" THEN Majority(files, fl)
       ELSE Majority(files, other)

\* get_parent_vin: the VIN most of the folder's own file names carry, by
\* FL name first, seriec name second, VIN prefix third; "" for None.
get_parent_vin(folder) ==
    LET files == DirectFiles(folder)
        fl(fn) == FLGroup(fn)
        seriec(fn) == IF FLGroup(fn) # "" THEN "" ELSE SeriecGroup(fn)
        other(fn) == IF FLGroup(fn) # "" \/ SeriecGroup(fn) # "" THEN ""
                     ELSE PrefixGroup(fn)
    IN IF Majority(files, fl) # "" THEN Majority(files, fl)
       ELSE IF Majority(files, seriec) # "" THEN Majority(files, seriec)
       ELSE Majority(files, other)

VinSubdirs(folder) == {d \in folder.subdirs : is_vin(d)}

\* plan_multi_car: the requests it makes, in order.
plan_multi_car(folder, out_partition) ==
    LET vds == SortVins({d[1] : d \in VinSubdirs(folder)})
        parent_vin == IF get_parent_vin(folder) # "" THEN get_parent_vin(folder)
                      ELSE vds[1]
        target == <<out_partition, <<parent_vin>>>>
        items == Listing(folder)
    IN Concat([k \in 1..Len(vds) |->
                  _copy_dir_files(folder, <<vds[k]>>,
                                  Elevate(out_partition, parent_vin, <<vds[k]>>),
                                  vds[k])])
       \o
       Concat([k \in 1..Len(items) |->
          LET item == items[k]
          IN IF item.isdir
             THEN IF item.parts[1] \in VinSubdirs(folder) THEN <<>>
                  ELSE _copy_dir_files(folder, item.parts[1],
                                       target \o <<item.parts[1]>>, parent_vin)
             ELSE <<Req(SrcPath(folder, item.file),
                        <<target, item.file.fn[1], item.file.fn[2]>>, parent_vin)>>])

\* extract_vins_from_pdf: the cached set, else the scan of the file.
extract_vins_from_pdf(cache, folder, f) ==
    IF SrcPath(folder, f) \in DOMAIN cache THEN cache[SrcPath(folder, f)]
    ELSE ColdScan(f.text).vins

NoVin == "_NO_VIN"

\* The copies of a folder without VIN into _NO_VIN/<folder name>.
NoVinCopies(folder, out_partition) ==
    LET no_vin_target == <<out_partition, <<NoVin>>, folder.name>>
        items == Listing(folder)
    IN Concat([k \in 1..Len(items) |->
          LET item == items[k]
          IN IF item.isdir
             THEN _copy_dir_files(folder, item.parts[1],
                                  no_vin_target \o <<item.parts[1]>>, NoVin)
             ELSE <<Req(SrcPath(folder, item.file),
                        <<no_vin_target, item.file.fn[1], item.file.fn[2]>>, NoVin)>>])

\* The keeper VIN plan_flat elects, "" when the folder shows no VIN at all.
Keeper(folder, cache, scan) ==
    LET files == DirectFiles(folder)
        file_fn_vins == [f \in files |-> extract_all_vins(f.fn[1])]
        all_fn_vins == UNION {file_fn_vins[f] : f \in files}
        pdf_vins == IF scan
                    THEN UNION {extract_vins_from_pdf(cache, folder, f) : f \in files}
                    ELSE {}
        found == all_fn_vins \cup pdf_vins
        all_vins_for_election ==
            IF found = {} THEN extract_all_vins(folder.name) ELSE found
        parent_vin == get_parent_vin(folder)
        count(v) == Cardinality({f \in files : v \in file_fn_vins[f]})
        best == {v \in all_fn_vins : \A w \in all_fn_vins : count(w) <= count(v)}
    IN IF all_vins_for_election = {} THEN ""
       ELSE IF /\ parent_vin # ""
               /\ parent_vin \in (IF all_fn_vins # {} THEN all_fn_vins
                                  ELSE all_vins_for_election)
       THEN parent_vin
       ELSE IF all_fn_vins # {} THEN SetFirst(best)
       ELSE SetFirst(all_vins_for_election)

\* The cross-copies without the record of the names copied away: every
\* file is then planned into the keeper's folder as well.
CopiesKeepingAll(folder, out_partition, keeper) ==
    LET files == SortItems({FileItem(f, 0) : f \in DirectFiles(folder)})
        fvins(k) == extract_all_vins(files[k].file.fn[1])
        to(k, v) == Req(SrcPath(folder, files[k].file),
                        <<<<out_partition, <<v>>>>, files[k].file.fn[1],
                          files[k].file.fn[2]>>, v)
        others(k) == SortVins(fvins(k) \ {keeper})
    IN [reqs |-> Concat([k \in 1..Len(files) |->
                    [j \in 1..Len(others(k)) |-> to(k, others(k)[j])]]),
        copied_out |-> {}]

\* The copies of the files whose names carry other VINs than the keeper,
\* and the names copied away from the keeper (copied_out).
FilenameVinCopies(folder, out_partition, keeper) ==
    LET files == SortItems({FileItem(f, 0) : f \in DirectFiles(folder)})
        fvins(k) == extract_all_vins(files[k].file.fn[1])
        to(k, v) == Req(SrcPath(folder, files[k].file),
                        <<<<out_partition, <<v>>>>, files[k].file.fn[1],
                          files[k].file.fn[2]>>, v)
        others(k) == IF keeper \in fvins(k) THEN SortVins(fvins(k) \ {keeper})
                     ELSE SortVins(fvins(k))
    IN [reqs |-> Concat([k \in 1..Len(files) |->
                    IF fvins(k) = {} \/ fvins(k) = {keeper} THEN <<>>
                    ELSE [j \in 1..Len(others(k)) |-> to(k, others(k)[j])]]),
        copied_out |-> {files[k].file.fn : k \in
                          {i \in 1..Len(files) : fvins(i) # {} /\ keeper \notin fvins(i)}}]

\* plan_flat: [reqs, warns], the requests and the warnings it makes, in order.
plan_flat(folder, out_partition, cache, scan) ==
    LET files == DirectFiles(folder)
        keeper == Keeper(folder, cache, scan)
        all_fn_vins == UNION {extract_all_vins(f.fn[1]) : f \in files}
        target == <<out_partition, <<keeper>>>>
        cross == IF all_fn_vins \ {keeper} # {}
                 THEN FilenameVinCopies(folder, out_partition, keeper)
                 ELSE [reqs |-> <<>>, copied_out |-> {}]
        items == Listing(folder)
    IN IF keeper = ""
       THEN IF files # {}
            THEN [reqs |-> NoVinCopies(folder, out_partition),
                  warns |-> <<[kind |-> "no_vin", what |-> folder.name]>>]
            ELSE [reqs |-> <<>>,
                  warns |-> <<[kind |-> "empty", what |-> folder.name]>>]
       ELSE [reqs |->
                cross.reqs \o
                Concat([k \in 1..Len(items) |->
                   LET item == items[k]
                   IN IF item.isdir
                      THEN IF is_vin(item.parts[1])
                           THEN _copy_dir_files(folder, item.parts[1],
                                    Elevate(out_partition, keeper, item.parts[1]),
                                    item.parts[1][1])
                           ELSE _copy_dir_files(folder, item.parts[1],
                                    target \o <<item.parts[1]>>, keeper)
                      ELSE IF item.file.fn \in cross.copied_out THEN <<>>
                      ELSE <<Req(SrcPath(folder, item.file),
                                 <<target, item.file.fn[1], item.file.fn[2]>>,
                                 keeper)>>]),
             warns |-> <<>>]

----------------------------------------------------------------------------
(* Scanning and planning *)

\* _get_partition_dirs: the directories of the root named SINDICALIZARE... or
\* SINICALIZARE...
IsPartitionName(name) == name[1] \in {"SINDICALIZARE FOO", "SINICALIZARE FOO"}

Partitions(t) == {fo \in t : IsPartitionName(fo.part)}

\* Ledger.add for each request, in order.
RECURSIVE AddAll(_, _)
AddAll(L, reqs) ==
    IF reqs = <<>> THEN L
    ELSE AddAll(LedgerAdd(L, "copy_file", Head(reqs).source,
                          Head(reqs).destination, Head(reqs).vin),
                Tail(reqs))

\* The folders of the partitions, partition by partition, each sorted.
AllFolders(t) ==
    LET keys == SortItems({[parts |-> <<fo.part, fo.name>>, n |-> 0,
                            isdir |-> TRUE, file |-> NoFile] : fo \in Partitions(t)})
    IN [k \in 1..Len(keys) |->
           CHOOSE fo \in t : <<fo.part, fo.name>> = keys[k].parts]

\* What scan_and_plan does with one folder: [reqs, warns].
PlanFolder(fo, cache, scan) ==
    LET out_partition == merge_partition_name(fo.part)
    IN IF is_vin(fo.name)
       THEN [reqs |-> plan_vin_folder(fo, out_partition), warns |-> <<>>]
       ELSE IF fo.subdirs = {} /\ fo.files = {}
       THEN [reqs |-> <<>>, warns |-> <<>>]
       ELSE IF VinSubdirs(fo) # {}
       THEN [reqs |-> plan_multi_car(fo, out_partition), warns |-> <<>>]
       ELSE plan_flat(fo, out_partition, cache, scan)

\* One turn of the loop of scan_and_plan: the requests of a folder are added
\* to the ledger, its warnings to the warnings.
PlanInto(acc, plan) ==
    [ledger |-> AddAll(acc.ledger, plan.reqs), warns |-> acc.warns \o plan.warns]

RECURSIVE PlanAll(_, _, _, _)
PlanAll(folders, acc, cache, scan) ==
    IF folders = <<>> THEN acc
    ELSE PlanAll(Tail(folders), PlanInto(acc, PlanFolder(Head(folders), cache, scan)),
                 cache, scan)

\* scan_and_plan: the ledger and the warnings after it.
scan_and_plan(t, L, cache, scan) ==
    PlanAll(AllFolders(t), [ledger |-> L, warns |-> <<>>], cache, scan)

\* The PDFs below the partitions with their texts.
PdfPairs(t) ==
    UNION {{<<SrcPath(fo, f), f.text>> : f \in fo.files} : fo \in Partitions(t)}

\* _scan_single_pdf(path, ocr=False) of each of them.
PdfScan(t) ==
    [p \in {q[1] : q \in PdfPairs(t)} |->
        ColdScan((CHOOSE q \in PdfPairs(t) : q[1] = p)[2])]

\* bulk_prescan_pdfs fills _pdf_cache and _pdf_content_cats.
BulkPrescanPdfs ==
    /\ stage = "start"
    /\ scan_pdf
    /\ pdf_cache' = [p \in DOMAIN PdfScan(tree) |-> PdfScan(tree)[p].vins]
    /\ pdf_content_cats' = [p \in DOMAIN PdfScan(tree) |-> PdfScan(tree)[p].cats]
    /\ stage' = "prescanned"
    /\ UNCHANGED <<tree, scan_pdf, warnings, set_first, marks, scanVars, auxVars,
                   ledgerVars, execVars, phase, added, renameVars>>

\* scan_and_plan(root, output_root, ledger, scan_pdf)
ScanAndPlan ==
    /\ stage = IF scan_pdf THEN "prescanned" ELSE "start"
    /\ \E r \in {scan_and_plan(tree, [changes |-> changes,
                                       planned_dests |-> planned_dests],
                                pdf_cache, scan_pdf)} :
          /\ changes' = r.ledger.changes
          /\ planned_dests' = r.ledger.planned_dests
          /\ warnings' = warnings \o r.warns
          /\ marks' = [marks EXCEPT !.planned = Len(r.ledger.changes)]
    /\ stage' = "planned"
    /\ UNCHANGED <<tree, scan_pdf, pdf_cache, pdf_content_cats, set_first,
                   scanVars, auxVars, execVars, phase, added, renameVars>>

\* The program ends and is started again on the same tree: the ledger of the
\* run before stays behind (changes.json), the PDF cache is the same, and the
\* new interpreter iterates its sets of strings in an order of its own.
NewProcess ==
    /\ stage = "planned"
    /\ set_first' \in {VinA, VinB, FillerVin(1)}
    /\ stage' = "restarted"
    /\ UNCHANGED <<tree, scan_pdf, pdf_cache, pdf_content_cats, warnings, marks,
                   scanVars, auxVars, ledgerVars, execVars, phase, added, renameVars>>

\* scan_and_plan of the new process, on a ledger of its own.
Replan ==
    /\ stage = "restarted"
    /\ \E r \in {scan_and_plan(tree, [changes |-> <<>>, planned_dests |-> <<>>],
                                pdf_cache, scan_pdf)} :
          /\ changes' = r.ledger.changes
          /\ planned_dests' = r.ledger.planned_dests
          /\ warnings' = r.warns
          /\ marks' = [marks EXCEPT !.planned = Len(r.ledger.changes)]
    /\ stage' = "replanned"
    /\ UNCHANGED <<tree, scan_pdf, pdf_cache, pdf_content_cats, set_first,
                   scanVars, auxVars, execVars, phase, added, renameVars>>

----------------------------------------------------------------------------
(* PDF content cross-copy *)

CacheGet(cache, p) == IF p \in DOMAIN cache THEN cache[p] ELSE {}

\* vin -> partition of the last entry planned for the VIN.
VinPartition(chs) ==
    LET own(v) == {i \in 1..Len(chs) : chs[i].vin = v}
    IN [v \in {chs[i].vin : i \in 1..Len(chs)} \ {""} |->
           chs[Max(own(v))].destination[1][1]]

CrossDest(vp, vin, src) == <<<<vp[vin], <<vin>>>>, src[2], src[3]>>

\* Mutation: the limit on the number of content VINs is not applied.
TooManyNever(content_vins) == FALSE

\* len(content_vins) > MAX_CROSS_COPY_VINS
TooMany(content_vins) == Cardinality(content_vins) > MAX_CROSS_COPY_VINS

\* The loop over the snapshot of the ledger, from entry k on;
\* acc = [ledger, warns, already].
RECURSIVE CrossFrom(_, _, _, _, _)
CrossFrom(acc, orig, k, vp, cache) ==
    IF k > Len(orig) THEN acc
    ELSE LET c == orig[k]
             content_vins == CacheGet(cache, c.source)
             todo == SortVins({v \in content_vins \cap DOMAIN vp :
                                  <<c.source, v>> \notin acc.already})
             reqs == [j \in 1..Len(todo) |->
                         Req(c.source, CrossDest(vp, todo[j], c.source), todo[j])]
         IN IF c.action # "copy_file" \/ content_vins = {}
            THEN CrossFrom(acc, orig, k + 1, vp, cache)
            ELSE IF TooMany(content_vins)
            THEN CrossFrom([acc EXCEPT !.warns =
                               Append(@, [kind |-> "too_many", what |-> c.source[2]])],
                           orig, k + 1, vp, cache)
            ELSE CrossFrom([ledger |-> AddAll(acc.ledger, reqs),
                            warns |-> acc.warns,
                            already |-> acc.already \cup
                                        {<<c.source, todo[j]>> : j \in 1..Len(todo)}],
                           orig, k + 1, vp, cache)

AlreadyPlanned(chs) ==
    {<<chs[i].source, chs[i].vin>> : i \in {j \in 1..Len(chs) : chs[j].action = "copy_file"}}

plan_pdf_cross_copies(L, cache) ==
    CrossFrom([ledger |-> L, warns |-> <<>>, already |-> AlreadyPlanned(L.changes)],
              L.changes, 1, VinPartition(L.changes), cache)

PlanPdfCrossCopies ==
    /\ stage = "planned"
    /\ scan_pdf
    /\ \E r \in {plan_pdf_cross_copies([changes |-> changes,
                                            planned_dests |-> planned_dests],
                                           pdf_cache)} :
          /\ changes' = r.ledger.changes
          /\ planned_dests' = r.ledger.planned_dests
          /\ warnings' = warnings \o r.warns
          /\ marks' = [marks EXCEPT !.crossed = Len(r.ledger.changes)]
    /\ stage' = "crossed"
    /\ UNCHANGED <<tree, scan_pdf, pdf_cache, pdf_content_cats, set_first,
                   scanVars, auxVars, execVars, phase, added, renameVars>>

----------------------------------------------------------------------------
(* Contract gap-fill *)

_CRITICAL_CATEGORIES == {"Contract Cadru", "Subcontract", "CASCO", "RCA"}

\* _pdf_critical_category: the critical category a file name shows, "" for None.
_pdf_critical_category(fn) ==
    IF _FACTURA_PRIORITY(fn) THEN ""
    ELSE IF HasWord(fn, "subcontract") \/ SubDigit(fn) THEN "Subcontract"
    ELSE IF \/ PatternMatch("Contract Cadru", fn)
            \/ \E i \in 1..Len(fn[1]) :
                  \/ /\ fn[1][i] = "contract" /\ After(fn, i) = " "
                     /\ Tok(fn, i + 2) = "de" /\ Tok(fn, i + 3) = " "
                     /\ Tok(fn, i + 4) = "leasing"
                  \/ fn[1][i] = "lo" /\ After(fn, i) = " " /\ Tok(fn, i + 2) = "contract"
    THEN "Contract Cadru"
    ELSE IF PatternMatch("CASCO", fn) THEN "CASCO"
    ELSE IF \/ Tok(fn, 1) = "polita" /\ After(fn, 1) = "_"
            \/ \E i \in 1..Len(fn[1]) :
                  \/ fn[1][i] = "polita" /\ After(fn, i) = "_" /\ Tok(fn, i + 2) = "rca"
                  \/ fn[1][i] = "rca" /\ Before(fn, i) # "_" /\ After(fn, i) # "_"
    THEN "RCA"
    ELSE ""

\* key(c) of the copy entries, in order of first appearance.
FirstSeen(chs, key(_)) ==
    LET firsts == {i \in 1..Len(chs) :
                     /\ chs[i].action = "copy_file"
                     /\ \A j \in 1..(i - 1) :
                           chs[j].action = "copy_file" => key(chs[j]) # key(chs[i])}
        order == OrderedSeq(firsts)
    IN [k \in 1..Len(order) |-> key(chs[order[k]])]

\* The critical categories a PDF shows by its name or its content.
PdfCats(ccats, src) ==
    ({_pdf_critical_category(Name(src))} \ {""})
    \cup (CacheGet(ccats, src) \cap _CRITICAL_CATEGORIES)

\* vin_categories after step 1: what the entries planned for the VIN show,
\* by the name of the destination and by the content of the source.
VinCategories(chs, ccats, vin) ==
    UNION {({_pdf_critical_category(Name(chs[i].destination))} \ {""})
           \cup (CacheGet(ccats, chs[i].source) \cap _CRITICAL_CATEGORIES) :
           i \in {j \in 1..Len(chs) : chs[j].action = "copy_file" /\ chs[j].vin = vin}}

\* Mutation: a category that has been filled stays missing.
StillMissingKeep(missing, matching) == missing

\* missing_cats.discard(cat) for cat in matching
StillMissing(missing, matching) == missing \ matching

\* The loop over pdf_info for one VIN, from candidate j on;
\* acc = [ledger, already], missing the categories the VIN still lacks.
RECURSIVE GapPdfs(_, _, _, _, _, _, _, _)
GapPdfs(acc, vin, missing, pdfs, j, vp, cache, ccats) ==
    IF j > Len(pdfs) \/ missing = {} THEN acc
    ELSE LET src == pdfs[j]
             matching == PdfCats(ccats, src) \cap missing
         IN IF \/ matching = {}
               \/ vin \notin CacheGet(cache, src)
               \/ <<src, vin>> \in acc.already
            THEN GapPdfs(acc, vin, missing, pdfs, j + 1, vp, cache, ccats)
            ELSE GapPdfs([ledger |-> LedgerAdd(acc.ledger, "copy_file", src,
                                               CrossDest(vp, vin, src), vin),
                          already |-> acc.already \cup {<<src, vin>>}],
                         vin, StillMissing(missing, matching), pdfs, j + 1,
                         vp, cache, ccats)

RECURSIVE GapVins(_, _, _, _, _, _, _, _)
GapVins(acc, chs0, vins, i, pdfs, vp, cache, ccats) ==
    IF i > Len(vins) THEN acc
    ELSE LET missing == _CRITICAL_CATEGORIES \ VinCategories(chs0, ccats, vins[i])
         IN GapVins(GapPdfs(acc, vins[i], missing, pdfs, 1, vp, cache, ccats),
                    chs0, vins, i + 1, pdfs, vp, cache, ccats)

plan_contract_gap_fill(L, cache, ccats) ==
    LET chs == L.changes
        vins == SelectSeq(FirstSeen(chs, LAMBDA c : c.vin), LAMBDA v : v # "")
        copies == SelectSeq(chs, LAMBDA c : c.action = "copy_file")
        vp == VinPartition(copies)
        pdfs == SelectSeq(FirstSeen(chs, LAMBDA c : c.source),
                          LAMBDA s : CacheGet(cache, s) # {} /\ PdfCats(ccats, s) # {})
    IN GapVins([ledger |-> L, already |-> AlreadyPlanned(chs)],
               chs, vins, 1, pdfs, vp, cache, ccats).ledger

PlanContractGapFill ==
    /\ stage = "crossed"
    /\ \E L \in {plan_contract_gap_fill([changes |-> changes,
                                             planned_dests |-> planned_dests],
                                            pdf_cache, pdf_content_cats)} :
          /\ changes' = L.changes
          /\ planned_dests' = L.planned_dests
    /\ stage' = "filled"
    /\ UNCHANGED <<tree, scan_pdf, pdf_cache, pdf_content_cats, warnings,
                   set_first, marks, scanVars, auxVars, execVars, phase, added, renameVars>>

----------------------------------------------------------------------------
(* The source roots of the model *)

PBase == <<"SINDICALIZARE FOO">>
PPart1 == <<"SINDICALIZARE FOO", " - Part 1">>
PPart2 == <<"SINDICALIZARE FOO", " - Part 2">>
PStacked == <<"SINDICALIZARE FOO", " - Part 1", " - Part 2">>
NotAPartition == <<"ARCHIVE">>

File(sub, stem, text) == [sub |-> sub, fn |-> <<stem, 0>>, text |-> text]

fSeriecA == File(<<>>, <<"seriec", "_", VinA, "_", "doc">>, <<>>)
fFlA == File(<<>>, <<"fl", " ", "-", " ", "car", " ", "-", " ", VinA>>, <<>>)
fDoc == File(<<>>, <<"doc">>, <<>>)
fVinADoc == File(<<>>, <<VinA, "_", "doc">>, <<>>)
fVinBCasco == File(<<>>, <<VinB, "_", "casco">>, <<>>)
fRcaInB == File(<< <<VinB>> >>, <<"polita", "_", "rca">>, <<>>)
fDeepInB == File(<< <<VinB>>, <<"docs">> >>, <<"scan">>, <<>>)
fScanInDocs == File(<< <<"docs">> >>, <<"scan">>, <<>>)
fContract == File(<<>>, <<"contract", " ", "cadru">>,
                  <<"contract", "cadru", VinA, VinB>>)

\* A master document: an insurance policy naming VinA, VinB and k further VINs.
fMaster(k) == File(<<>>, <<"master">>,
                   <<"casco", VinA, VinB>> \o [i \in 1..k |-> FillerVin(i)])

\* A second master document of the same kind in one folder.
fMasterScan(k) == File(<<>>, <<"master", "_", "scan">>,
                       <<"casco", VinA, VinB>> \o [i \in 1..k |-> FillerVin(i)])
fDocInA == File(<< <<VinA>> >>, <<"doc">>, <<>>)

Folder3(name, subdirs, files) == [name |-> name, subdirs |-> subdirs, files |-> files]

VinFolderA == Folder3(<<VinA>>, {<<VinB>>, <<"docs">>},
                      {fSeriecA, fRcaInB, fDeepInB, fScanInDocs})
VinFolderB == Folder3(<<VinB>>, {}, {fContract})
MultiCar == Folder3(<<"cars">>, {<<VinB>>, <<"docs">>}, {fFlA, fRcaInB, fScanInDocs})
MultiCarBare == Folder3(<<"cars">>, {<<VinB>>}, {fRcaInB})
\* A container of two cars holding one master document at the limit of
\* MAX_CROSS_COPY_VINS content VINs and one above it.
MultiCarMasters ==
    Folder3(<<"cars">>, {<<VinA>>, <<VinB>>},
            {fDocInA, fRcaInB, fMaster(MAX_CROSS_COPY_VINS - 2),
             fMasterScan(MAX_CROSS_COPY_VINS - 1)})
\* A container of two cars holding two master documents above the limit.
MultiCarOver ==
    Folder3(<<"master">>, {<<VinA>>, <<VinB>>},
            {fDocInA, fRcaInB, fMaster(MAX_CROSS_COPY_VINS - 1),
             fMasterScan(MAX_CROSS_COPY_VINS - 1)})
NoVinFolder == Folder3(<<"misc">>, {<<"docs">>}, {fDoc, fScanInDocs})
NoVinSubOnly == Folder3(<<"misc">>, {<<"docs">>}, {fScanInDocs})
NoVinEmptySub == Folder3(<<"misc">>, {<<"docs">>}, {})
EmptyFolder == Folder3(<<"misc">>, {}, {})
NamedTwoVins == Folder3(<<VinB, " ", VinA, " ", "toyota">>, {<<"docs">>},
                        {fDoc, fScanInDocs})
NamedOneVin == Folder3(<<VinA, " ", "toyota">>, {<<"docs">>}, {fDoc, fScanInDocs})
FileVins == Folder3(<<"car">>, {}, {fVinADoc, fVinBCasco})
Masters(k) == Folder3(<<"master">>, {}, {fMaster(k)})

\* Containers whose loose files fill the pools of get_parent_vin: an FL name
\* of VinA beside a seriec name of VinB; two FL names of VinA beside one of
\* VinB; one FL name of each.
fFlB == File(<<>>, <<"fl", " ", "-", " ", "car", " ", "-", " ", VinB>>, <<>>)
fFlA1 == [sub |-> <<>>, fn |-> <<<<"fl", " ", "-", " ", "car", " ", "-", " ", VinA>>, 1>>,
          text |-> <<>>]
fSeriecB == File(<<>>, <<"seriec", "_", VinB, "_", "doc">>, <<>>)
MultiCarPools == Folder3(<<"cars">>, {<<VinB>>, <<"docs">>},
                         {fFlA, fSeriecB, fRcaInB, fScanInDocs})
MultiCarMode == Folder3(<<"cars">>, {<<VinB>>}, {fFlA, fFlA1, fFlB, fRcaInB})
MultiCarTie == Folder3(<<"cars">>, {<<VinB>>}, {fFlA, fFlB, fRcaInB})

\* Flat folders whose file names carry VINs outside the FL, seriec and
\* prefix patterns: VinA in two names and VinB in one; both VINs in one
\* name; and a folder with a seriec name of VinA, a name with VinB alone, a
\* name with both VINs and a name with none.
fDocA == File(<<>>, <<"doc", "_", VinA>>, <<>>)
fScanA == File(<<>>, <<"scan", "_", VinA>>, <<>>)
fDocB == File(<<>>, <<"doc", "_", VinB>>, <<>>)
fDocBA == File(<<>>, <<"doc", "_", VinB, "_", VinA>>, <<>>)
FlatCounts == Folder3(<<"car">>, {}, {fDocA, fScanA, fDocB})
FlatTie == Folder3(<<"car">>, {<<"docs">>}, {fDocBA, fScanInDocs})
FlatMixed == Folder3(<<"car">>, {<<"docs">>},
                     {fSeriecA, fDocB, fDocBA, fDoc, fScanInDocs})

Put(part, fo) ==
    [part |-> part, name |-> fo.name, subdirs |-> fo.subdirs, files |-> fo.files]

Placed ==
    {Put(p, VinFolderA) : p \in {PBase, PPart1, PStacked}}
    \cup {Put(p, VinFolderB) : p \in {PBase, PPart1, PPart2, NotAPartition}}
    \cup {Put(PPart1, MultiCar), Put(PPart2, MultiCarBare), Put(PBase, MultiCarMasters)}
    \cup {Put(PPart2, MultiCarOver)}
    \cup {Put(p, NoVinFolder) : p \in {PPart1, PStacked}}
    \cup {Put(PPart1, fo) : fo \in {NoVinSubOnly, NoVinEmptySub, EmptyFolder,
                                    NamedTwoVins, FileVins}}
    \cup {Put(PPart2, NamedOneVin)}
    \cup {Put(PPart1, MultiCarPools), Put(PPart2, MultiCarMode), Put(PBase, MultiCarTie)}
    \cup {Put(PBase, FlatCounts), Put(PPart2, FlatTie), Put(PStacked, FlatMixed)}
    \cup {Put(PPart1, Masters(k)) : k \in {0, MAX_CROSS_COPY_VINS - 2,
                                           MAX_CROSS_COPY_VINS - 1}}

\* The roots: up to MaxFolders folders, no two of one partition and name.
RECURSIVE TreesUpTo(_)
TreesUpTo(n) ==
    IF n = 0 THEN {{}}
    ELSE LET smaller == TreesUpTo(n - 1)
         IN  smaller \cup {t \cup {a} : t \in smaller, a \in Placed}

Trees ==
    {t \in TreesUpTo(MaxFolders) :
        /\ t # {}
        /\ \A a, b \in t : a.part = b.part /\ a.name = b.name => a = b}

----------------------------------------------------------------------------
(* The rename pass on the plan of a tree *)

PTypo == <<"SINICALIZARE FOO">>

\* Insurance policies: two with the same bytes under different names, one
\* with other bytes, one in a subdirectory.
fRca == File(<<>>, <<"polita", "_", "rca">>, <<>>)
fRcaCopy == File(<<>>, <<"polita", "_", "rca", "_", "copy">>, <<>>)
fRcaOther == File(<<>>, <<"polita", "_", "rca">>, <<"rca", "other">>)
fRcaInDocs == File(<< <<"docs">> >>, <<"polita", "_", "rca">>, <<>>)

NoVinRca == Folder3(<<"misc">>, {}, {fRca})
NoVinRcaSame == Folder3(<<"other">>, {}, {fRca})
NoVinRcaOther == Folder3(<<"other">>, {}, {fRcaOther})
VinRca == Folder3(<<VinA>>, {}, {fRca})
VinRcaTwice == Folder3(<<VinA>>, {}, {fRca, fRcaCopy})
VinRcaSub == Folder3(<<VinA>>, {<<"docs">>}, {fRca, fRcaInDocs})
VinRcaB == Folder3(<<VinB>>, {}, {fRca, fDoc})

RenamePlaced ==
    {Put(PPart1, NoVinRca), Put(PPart1, NoVinRcaSame), Put(PPart2, NoVinRcaOther),
     Put(PBase, VinRca), Put(PTypo, VinRca), Put(PPart1, VinRcaTwice),
     Put(PPart2, VinRcaSub), Put(PBase, VinRcaB)}

RenameTrees ==
    {t \in SUBSET RenamePlaced :
        /\ t # {} /\ Cardinality(t) <= MaxFolders
        /\ \A a, b \in t : a.part = b.part /\ a.name = b.name => a = b}

\* The bytes of the files of a tree, by path: the tree stands for the source
\* root the planned sources are read from.
TreeBytes(t) ==
    LET at == {<<fo, f>> : fo \in t, f \in UNION {g.files : g \in t}}
        here == {x \in at : x[2] \in x[1].files}
    IN [p \in {SrcPath(x[1], x[2]) : x \in here} |->
           (CHOOSE x \in here : SrcPath(x[1], x[2]) = p)[2].text]

\* --rename-files after scan_and_plan: plan_category_renames on the ledger of
\* the tree.
RenamePlanned ==
    /\ stage = "planned"
    /\ phase = "plan"
    /\ changes # <<>>
    /\ \E r \in {plan_category_renames(TreeBytes(tree),
                                        [changes |-> changes,
                                         planned_dests |-> planned_dests])} :
          /\ changes' = r.changes
          /\ planned_dests' = r.planned_dests
          /\ stats' = r.stats
          /\ original_names' = r.original_names
    /\ phase' = "renamed"
    /\ UNCHANGED <<planVars, scanVars, auxVars, execVars, added>>

----------------------------------------------------------------------------
(* Content reclassification: _scan_pdf_for_category *)

\* Priority order for content classification
_CONTENT_PRIORITY ==
    <<"Facturi", TalonCiv, "Contract Cadru", "Subcontract", "CASCO", "RCA">>

\* The number of characters of a word of a text.
WordLen(w) ==
    CASE w \in {"RCA", "rca", "CIV", "civ"} -> 3
      [] w \in {"cadru", "casco", "talon", "lorem"} -> 5
      [] w = "factura" -> 7
      [] w = "contract" -> 8
      [] w = "subcontract" -> 11
      [] w = VinA -> 17
      [] OTHER -> 1

\* The character offset of word i: the words are one blank apart.
RECURSIVE Offset(_, _)
Offset(text, i) ==
    IF i = 1 THEN 0 ELSE Offset(text, i - 1) + WordLen(text[i - 1]) + 1

\* The offsets at which some pattern of _CONTENT_CATEGORY_PATTERNS[cat]
\* matches the text.  RCA and CIV are matched in upper case only; the word
\* "contract" is matched inside "subcontract" too.
ContentMatches(cat, text) ==
    CASE cat = "Contract Cadru" ->
            {Offset(text, i) + (IF text[i] = "subcontract" THEN 3 ELSE 0) :
                i \in {j \in 1..(Len(text) - 1) :
                          /\ text[j] \in {"contract", "subcontract"}
                          /\ text[j + 1] = "cadru"}}
      [] cat = "Subcontract" ->
            {Offset(text, i) : i \in {j \in DOMAIN text : text[j] = "subcontract"}}
      [] cat = "CASCO" ->
            {Offset(text, i) : i \in {j \in DOMAIN text : text[j] = "casco"}}
      [] cat = "RCA" ->
            {Offset(text, i) : i \in {j \in DOMAIN text : text[j] = "RCA"}}
      [] cat = TalonCiv ->
            {Offset(text, i) : i \in {j \in DOMAIN text : text[j] \in {"talon", "CIV"}}}
      [] cat = "Facturi" ->
            {Offset(text, i) : i \in {j \in DOMAIN text : text[j] = "factura"}}
      [] OTHER -> {}

\* for cat in _CONTENT_PRIORITY: ... if pat.search(text): return cat
\* ("" for None)
ContentCategory(text) ==
    LET hits == {k \in DOMAIN _CONTENT_PRIORITY :
                    ContentMatches(_CONTENT_PRIORITY[k], text) # {}}
    IN IF hits = {} THEN "" ELSE _CONTENT_PRIORITY[Min(hits)]

----------------------------------------------------------------------------
(* Persistent OCR cache *)

\* The cache holds at most one entry: that of the one PDF of the model.
\* _file_fingerprint of the file is pdf_file.fp.
NoEntry == <<>>

\* Mutation: the fingerprint of the entry is not compared.
LookupAnyFingerprint(cache, file) ==
    IF cache = NoEntry \/ ~ cache[1].ocr_used
    THEN [hit |-> FALSE, vins |-> {}, cats |-> {}]
    ELSE [hit |-> TRUE, vins |-> cache[1].vins, cats |-> cache[1].cats]

\* _ocr_cache_lookup: (hit, vins, cats)
_ocr_cache_lookup(cache, file) ==
    IF cache = NoEntry \/ ~ cache[1].ocr_used \/ cache[1].fp # file.fp
    THEN [hit |-> FALSE, vins |-> {}, cats |-> {}]
    ELSE [hit |-> TRUE, vins |-> cache[1].vins, cats |-> cache[1].cats]

\* _ocr_cache_store(path, vins, cats, reclass_cat): scan is <<>> or
\* <<[vins, cats]>>, rcat is <<>> (unset) or <<category>>.  An entry
\* without "vins" or "cats" reads as the empty list.
_ocr_cache_store(cache, file, scan, rcat) ==
    LET entry == IF cache = NoEntry
                 THEN [fp |-> 0, ocr_used |-> FALSE, vins |-> {}, cats |-> {},
                       has_reclass |-> FALSE, reclass_cat |-> ""]
                 ELSE cache[1]
    IN << [fp |-> file.fp,
           ocr_used |-> TRUE,
           vins |-> IF scan # <<>> THEN scan[1].vins ELSE entry.vins,
           cats |-> IF scan # <<>> THEN scan[1].cats ELSE entry.cats,
           has_reclass |-> rcat # <<>> \/ entry.has_reclass,
           reclass_cat |-> IF rcat # <<>> THEN rcat[1] ELSE entry.reclass_cat] >>

\* _scan_single_pdf(path, ocr): the cached sets on a hit, else the scan.
_scan_single_pdf(cache, file, ocr) ==
    LET r == _ocr_cache_lookup(cache, file)
    IN IF ocr /\ r.hit THEN r
       ELSE [hit |-> FALSE, vins |-> ColdScan(file.text).vins,
             cats |-> ColdScan(file.text).cats]

\* _scan_pdf_for_category(path, ocr): a previous reclassification result of
\* the cache, else the category of the text (_reclass_cache, which only the
\* tests fill, is empty).
_scan_pdf_for_category(cache, file, ocr) ==
    IF /\ ocr /\ cache # NoEntry /\ cache[1].ocr_used /\ cache[1].has_reclass
       /\ cache[1].fp = file.fp
    THEN cache[1].reclass_cat
    ELSE ContentCategory(file.text)

\* last_call before any call
NoCall == [fn |-> "", arg |-> <<>>, result |-> <<>>]

\* The words of the texts and the texts of the model.
ScanWords ==
    {"contract", "cadru", "subcontract", "casco", "RCA", "rca", "factura", VinA}

ScanTexts == UNION {[1..n -> ScanWords] : n \in 0..MaxWords}

\* The words and separators of the file names, and the file names.
NameWords ==
    {"fl", "contract", "cadru", "subcontract", "polita", "rca", "casco", "dt",
     "factura", "ff", "op", "cesiune", "talon", "civ", "cc", "doc"}

NameSeps == {" ", "_"}

RECURSIVE NameStems(_)
NameStems(n) ==
    IF n = 1 THEN {<<w>> : w \in NameWords}
    ELSE NameStems(n - 1)
         \cup {st \o <<sep, w>> : st \in NameStems(n - 1), sep \in NameSeps,
                                  w \in NameWords}

ScanNames ==
    {<<st, n>> : st \in NameStems(MaxParts) \cup DOMAIN _SHORT_NAME_TO_CAT,
                 n \in 0..1}
    \cup _IGNORE_FILES

\* reclassify_by_content scans the PDF for its category, with OCR or
\* without; with OCR the result is stored in the cache.
ReclassifyByContent ==
    /\ \E ocr \in BOOLEAN :
          \E cat \in {_scan_pdf_for_category(ocr_disk_cache, pdf_file, ocr)} :
             /\ ocr_disk_cache' = IF ocr
                                  THEN _ocr_cache_store(ocr_disk_cache, pdf_file,
                                                        <<>>, <<cat>>)
                                  ELSE ocr_disk_cache
             /\ last_call' = [fn |-> "_scan_pdf_for_category",
                              arg |-> <<ocr>>, result |-> cat]
    /\ UNCHANGED <<pdf_file, planVars, auxVars, ledgerVars, execVars, phase, added, renameVars>>

\* rescan_rescue_no_vin with OCR: the cache is looked up; on a miss the PDF
\* is scanned and the result stored.
RescueScan ==
    /\ \E r \in {_scan_single_pdf(ocr_disk_cache, pdf_file, TRUE)} :
          /\ ocr_disk_cache' = IF r.hit THEN ocr_disk_cache
                               ELSE _ocr_cache_store(ocr_disk_cache, pdf_file,
                                        <<[vins |-> r.vins, cats |-> r.cats]>>, <<>>)
          /\ last_call' = [fn |-> "_scan_single_pdf", arg |-> <<TRUE>>,
                           result |-> r]
    /\ UNCHANGED <<pdf_file, planVars, auxVars, ledgerVars, execVars, phase, added, renameVars>>

\* The PDF is replaced by another: its text and its fingerprint change.
\* No call has been made on the new file yet.
ModifyFile ==
    /\ pdf_file.fp < MaxEdits
    /\ \E text \in ScanTexts \ {pdf_file.text} :
          pdf_file' = [text |-> text, fp |-> pdf_file.fp + 1]
    /\ last_call' = NoCall
    /\ UNCHANGED <<ocr_disk_cache, planVars, auxVars, ledgerVars, execVars,
                   phase, added, renameVars>>

\* categorize_file(fn) of the file name at hand
CategorizeFile ==
    /\ last_call.fn = ""
    /\ last_call' = [fn |-> "categorize_file", arg |-> last_call.arg,
                     result |-> categorize_file(last_call.arg)]
    /\ UNCHANGED <<ocr_disk_cache, pdf_file, planVars, auxVars, ledgerVars, execVars,
                   phase, added, renameVars>>

----------------------------------------------------------------------------
(* Persistent rename map: load_rename_map, save_rename_map *)

\* Every variable of the planner, the executor and the scans.
pipelineVars == <<planVars, scanVars, ledgerVars, execVars, phase, added, renameVars>>

\* A file name as the string the map holds: its tokens and the extension.
FileNameStr(fn) == StemOf(fn) \o <<".pdf">>

\* f"{vin}||{new_fn}": a key (vin, new_fn), both token sequences, as JSON key
EncodeKey(k) == k[1] \o <<"||">> \o k[2]

HasSep(s) == \E i \in DOMAIN s : s[i] = "||"

\* key.split("||", 1): the parts before and after the first separator
DecodeKey(s) ==
    LET i == Min({j \in DOMAIN s : s[j] = "||"})
    IN <<SubSeq(s, 1, i - 1), SubSeq(s, i + 1, Len(s))>>

\* rename_map.json is absent before the first save.
NoMapFile == [exists |-> FALSE, data |-> <<>>]

\* load_rename_map(output_root): {} without file; the keys with a separator
\* turned back into pairs.
load_rename_map(file) ==
    IF ~ file.exists THEN <<>>
    ELSE LET keys == {q \in DOMAIN file.data : HasSep(q)}
         IN [k \in {DecodeKey(q) : q \in keys} |->
                file.data[CHOOSE q \in keys : DecodeKey(q) = k]]

\* Mutation: the file is written from the new entries alone.
SaveWithoutMerge(file, m) ==
    [exists |-> TRUE,
     data |-> [q \in {EncodeKey(k) : k \in DOMAIN m} |->
                  m[CHOOSE k \in DOMAIN m : EncodeKey(k) = q]]]

\* save_rename_map(output_root, original_names): the entries of the file
\* are read, the new ones written over them, the file rewritten.
save_rename_map(file, m) ==
    LET existing == IF file.exists THEN file.data ELSE <<>>
        fresh == {EncodeKey(k) : k \in DOMAIN m}
    IN [exists |-> TRUE,
        data |-> [q \in DOMAIN existing \cup fresh |->
                     IF q \in fresh
                     THEN m[CHOOSE k \in DOMAIN m : EncodeKey(k) = q]
                     ELSE existing[q]]]

\* The keys and the original names of the maps of the model.
MapKeys ==
    {<<<<"V1">>, FileNameStr(<<<<"cc">>, 0>>)>>,
     <<<<"V1">>, FileNameStr(<<<<"cc">>, 1>>)>>,
     <<<<"V2">>, FileNameStr(<<<<"cc">>, 0>>)>>}

MapNames ==
    {FileNameStr(<<<<"doc">>, 0>>), FileNameStr(<<<<"polita", " ", "casco">>, 0>>)}

RenameMaps == UNION {[D -> MapNames] : D \in SUBSET MapKeys}

InitMap ==
    /\ rename_map_file = NoMapFile
    /\ saved_maps = <<>>

\* A run saves its original_names.
SaveRenameMap ==
    /\ Len(saved_maps) < MaxSaves
    /\ \E m \in RenameMaps :
          /\ rename_map_file' = save_rename_map(rename_map_file, m)
          /\ saved_maps' = Append(saved_maps, m)
          /\ last_call' = [fn |-> "save_rename_map", arg |-> m, result |-> <<>>]
    /\ UNCHANGED <<prescan, ocr_disk_cache, pdf_file, planVars, ledgerVars,
                   execVars, phase, added, renameVars, reclassVars, no_vin>>

\* A run loads the map.
LoadRenameMap ==
    /\ last_call' = [fn |-> "load_rename_map", arg |-> <<>>,
                     result |-> load_rename_map(rename_map_file)]
    /\ UNCHANGED <<rename_map_file, saved_maps, prescan, ocr_disk_cache, pdf_file,
                   planVars, ledgerVars, execVars, phase, added, renameVars,
                   reclassVars, no_vin>>

----------------------------------------------------------------------------
(* The PDF pre-scan, step by step: bulk_prescan_pdfs *)

\* The enumerated PDFs.  What the scan of a PDF does is its nature:
\*   "ok"    _scan_single_pdf returns the sets of the text within the timeout
\*   "slow"  it returns them after more than PDF_TIMEOUT seconds
\*   "error" the parser raises; _scan_single_pdf returns empty sets and the error
\*   "hang"  the scan never returns
\*   "kill"  the process running the scan dies
Pdfs == 1..MaxPdfs

Natures == {"ok", "slow", "error", "hang", "kill"}

\* _cb(path, vins, cats, err): the caches are set, one counter is advanced.
\* The cache holds "sets" for the result of a scan, "empty" for set().
_cb(ps, p, entry, err) ==
    [ps EXCEPT !.cache[p] = entry,
               !.calls[p] = @ + 1,
               !.failed = IF err THEN @ + 1 ELSE @,
               !.scanned = IF err THEN @ ELSE @ + 1]

InitPrescan(nature, w, broken) ==
    [pc |-> "start", nature |-> nature, workers |-> w, submit_fails |-> broken,
     fut |-> [p \in Pdfs |-> "none"],
     yielded |-> {},
     cache |-> [p \in Pdfs |-> "none"],
     calls |-> [p \in Pdfs |-> 0],
     scanned |-> 0, failed |-> 0]

\* if workers <= 1: sequential; else the pool is created and every PDF
\* submitted; a pool that cannot be used raises out of the with block.
PrescanStart ==
    /\ prescan.pc = "start"
    /\ prescan' =
          IF prescan.workers <= 1 THEN [prescan EXCEPT !.pc = "sequential"]
          ELSE IF prescan.submit_fails THEN [prescan EXCEPT !.pc = "fallback"]
          ELSE [prescan EXCEPT !.pc = "pool", !.fut = [p \in Pdfs |-> "queued"]]
    /\ UNCHANGED <<pipelineVars, rename_map_file, saved_maps, reclassVars, no_vin>>

\* A free worker process takes a queued scan.
WorkerTake(p) ==
    /\ prescan.pc = "pool"
    /\ prescan.fut[p] = "queued"
    /\ Cardinality({q \in Pdfs : prescan.fut[q] = "running"}) < prescan.workers
    /\ prescan' = [prescan EXCEPT !.fut[p] = "running"]
    /\ UNCHANGED <<pipelineVars, rename_map_file, saved_maps, reclassVars, no_vin>>

\* The scan returns in the worker: the future is done.  A scan that hangs
\* never gets here.
WorkerFinish(p) ==
    /\ prescan.pc = "pool"
    /\ prescan.fut[p] = "running"
    /\ prescan.nature[p] \in {"ok", "slow", "error"}
    /\ prescan' = [prescan EXCEPT !.fut[p] = "done"]
    /\ UNCHANGED <<pipelineVars, rename_map_file, saved_maps, reclassVars, no_vin>>

\* The worker process dies: the pool is broken, every future that is not
\* done gets the exception BrokenProcessPool.
WorkerDies(p) ==
    /\ prescan.pc = "pool"
    /\ prescan.fut[p] = "running"
    /\ prescan.nature[p] = "kill"
    /\ prescan' = [prescan EXCEPT !.fut =
                      [q \in Pdfs |-> IF prescan.fut[q] = "done" THEN "done"
                                      ELSE "broken"]]
    /\ UNCHANGED <<pipelineVars, rename_map_file, saved_maps, reclassVars, no_vin>>

\* for f in as_completed(futs): a finished future is handed out, once;
\* f.result(timeout=PDF_TIMEOUT) returns at once, or raises what the future
\* holds, which the inner except records.
Collect(p) ==
    /\ prescan.pc = "pool"
    /\ p \notin prescan.yielded
    /\ prescan.fut[p] \in {"done", "broken"}
    /\ prescan' =
          LET ps == [prescan EXCEPT !.yielded = @ \cup {p}]
          IN IF prescan.fut[p] = "broken" THEN _cb(ps, p, "empty", TRUE)
             ELSE IF prescan.nature[p] = "error" THEN _cb(ps, p, "empty", TRUE)
             ELSE _cb(ps, p, "sets", FALSE)
    /\ UNCHANGED <<pipelineVars, rename_map_file, saved_maps, reclassVars, no_vin>>

\* as_completed is exhausted and the with block left.
PoolEnd ==
    /\ prescan.pc = "pool"
    /\ prescan.yielded = Pdfs
    /\ prescan' = [prescan EXCEPT !.pc = "done"]
    /\ UNCHANGED <<pipelineVars, rename_map_file, saved_maps, reclassVars, no_vin>>

\* The PDFs still to be scanned in the parent, in order.
NextSequential(ps) ==
    IF ps.pc = "sequential" THEN {p \in Pdfs : ps.calls[p] = 0}
    ELSE {p \in Pdfs : ps.cache[p] = "none"}

\* _cb(*_scan_single_pdf(p, ocr=False)) in the parent process: no timeout
\* applies; a scan that hangs never returns, a dying process ends the run.
SequentialScan ==
    /\ prescan.pc \in {"sequential", "fallback"}
    /\ NextSequential(prescan) # {}
    /\ LET p == Min(NextSequential(prescan))
       IN /\ prescan.nature[p] # "hang"
          /\ prescan' =
                IF prescan.nature[p] = "kill" THEN [prescan EXCEPT !.pc = "crashed"]
                ELSE IF prescan.nature[p] = "error" THEN _cb(prescan, p, "empty", TRUE)
                ELSE _cb(prescan, p, "sets", FALSE)
    /\ UNCHANGED <<pipelineVars, rename_map_file, saved_maps, reclassVars, no_vin>>

SequentialEnd ==
    /\ prescan.pc \in {"sequential", "fallback"}
    /\ NextSequential(prescan) = {}
    /\ prescan' = [prescan EXCEPT !.pc = "done"]
    /\ UNCHANGED <<pipelineVars, rename_map_file, saved_maps, reclassVars, no_vin>>

----------------------------------------------------------------------------
(* Partition directories: _get_partition_dirs *)

\* Here a name is the sequence of its characters.  The characters of the
\* model in code-point order:
CharOrder ==
    <<" ", "A", "B", "C", "D", "E", "I", "L", "N", "R", "S", "X", "Z",
      "a", "c", "e", "i", "l", "n", "r", "s", "z">>

CharRank(c) == CHOOSE i \in DOMAIN CharOrder : CharOrder[i] = c

\* str.upper(), character by character
UpperChar(c) ==
    CASE c = "a" -> "A" [] c = "c" -> "C" [] c = "e" -> "E" [] c = "i" -> "I"
      [] c = "l" -> "L" [] c = "n" -> "N" [] c = "r" -> "R" [] c = "s" -> "S"
      [] c = "z" -> "Z" [] OTHER -> c

Upper(name) == [i \in DOMAIN name |-> UpperChar(name[i])]

\* str.startswith
StartsWith(name, prefix) ==
    Len(name) >= Len(prefix) /\ SubSeq(name, 1, Len(prefix)) = prefix

SINDICALIZARE == <<"S", "I", "N", "D", "I", "C", "A", "L", "I", "Z", "A", "R", "E">>
SINICALIZARE == <<"S", "I", "N", "I", "C", "A", "L", "I", "Z", "A", "R", "E">>

\* Order of two names as strings
RECURSIVE CharLess(_, _)
CharLess(a, b) ==
    IF a = <<>> THEN b # <<>>
    ELSE IF b = <<>> THEN FALSE
    ELSE IF a[1] = b[1] THEN CharLess(Tail(a), Tail(b))
    ELSE CharRank(a[1]) < CharRank(b[1])

\* sorted(root.iterdir()): the names of a listing, in order
RECURSIVE SortNames(_)
SortNames(S) ==
    IF S = {} THEN <<>>
    ELSE LET m == CHOOSE x \in S : \A y \in S \ {x} : CharLess(x, y)
         IN <<m>> \o SortNames(S \ {m})

\* s[start:end] for 0 <= start, 0 <= end
PySlice(s, start, end) ==
    SubSeq(s, start + 1, IF end < Len(s) THEN end ELSE Len(s))

\* Mutation: the slice starts at position range_start + 1.
PartitionDirsFromNext(listing, range_start, range_end) ==
    LET all_parts == SelectSeq(SortNames(DOMAIN listing), LAMBDA d :
                        /\ listing[d]
                        /\ \/ StartsWith(Upper(d), SINDICALIZARE)
                           \/ StartsWith(Upper(d), SINICALIZARE))
    IN PySlice(all_parts, range_start,
               IF range_end # 0 THEN range_end ELSE Len(all_parts))

\* _get_partition_dirs(root, range_start, range_end); listing is the root
\* directory: name -> is_dir().
_get_partition_dirs(listing, range_start, range_end) ==
    LET all_parts == SelectSeq(SortNames(DOMAIN listing), LAMBDA d :
                        /\ listing[d]
                        /\ \/ StartsWith(Upper(d), SINDICALIZARE)
                           \/ StartsWith(Upper(d), SINICALIZARE))
        start == Max({0, (IF range_start # 0 THEN range_start ELSE 1) - 1})
        end == IF range_end # 0 THEN range_end ELSE Len(all_parts)
    IN PySlice(all_parts, start, end)

\* The names a root directory of the model may hold.
RootNames ==
    {SINDICALIZARE \o <<" ", "A">>,
     SINICALIZARE \o <<" ", "B">>,
     <<"s", "i", "n", "i", "c", "a", "l", "i", "z", "a", "r", "e", " ", "c">>,
     <<"S", "I", "N", "D", "I", "C", "A", "L">>,
     <<"X">> \o SINDICALIZARE}

RootListings == UNION {[D -> BOOLEAN] : D \in SUBSET RootNames}

\* _get_partition_dirs is called on the root and the range at hand.
GetPartitionDirs ==
    /\ last_call.fn = ""
    /\ last_call' = [fn |-> "_get_partition_dirs", arg |-> last_call.arg,
                     result |-> _get_partition_dirs(last_call.arg.listing,
                                                    last_call.arg.range_start,
                                                    last_call.arg.range_end)]
    /\ UNCHANGED <<ocr_disk_cache, pdf_file, planVars, auxVars, ledgerVars,
                   execVars, phase, added, renameVars>>

----------------------------------------------------------------------------
(* Content reclassification of the inventory: reclassify_by_content *)

AlteDocumente == "Alte Documente"

\* critical = set(_CONTENT_PRIORITY)
critical == Range(_CONTENT_PRIORITY)

\* The categories an inventory of the model lists.
InvCats == critical \cup {AlteDocumente}

\* A listed file: <<stem, counter, extension>>; counter 0 is no counter.
\* The files of the model, in the order the directory walk yields them.
RelOrder == << <<"doc", 0, "PDF">>, <<"notes", 0, "txt">>, <<"scan_001", 0, "pdf">> >>

RelFiles == Range(RelOrder)

\* rel.lower().endswith('.pdf')
LowerExt(e) == IF e = "PDF" THEN "pdf" ELSE e

IsPdfRel(rel) == LowerExt(rel[3]) = "pdf"

\* The short name of a category, "" when it has none.
ShortOf(cat) ==
    IF \E k \in 1..Len(_CAT_SHORT_NAMES) : _CAT_SHORT_NAMES[k][1] = cat
    THEN _CAT_SHORT_NAMES[CHOOSE k \in 1..Len(_CAT_SHORT_NAMES) :
                             _CAT_SHORT_NAMES[k][1] = cat][2]
    ELSE ""

\* The file a present category lists before the call.
HaveFile == <<"have", 0, "pdf">>

\* No category detected (None)
NoCat == ""

\* The scan of a PDF raised
ScanError == "error"

\* The categories a VIN of the model may miss, and what a scan may detect.
MissCats == {"Contract Cadru", "CASCO"}

Detections == {NoCat, ScanError, "Contract Cadru", "CASCO"}

\* The lists of Alte Documente of the model: some of the files, in the order
\* of the walk.
AlteLists ==
    {s \in UNION {[1..n -> RelFiles] : n \in 0..MaxAlte} :
        \A i, j \in DOMAIN s :
           i < j => \E a, b \in DOMAIN RelOrder :
                       a < b /\ RelOrder[a] = s[i] /\ RelOrder[b] = s[j]}

\* inventory[vin]["_files"] with the categories in `miss` empty.
FilesOf(miss, alte) ==
    [c \in InvCats |->
        IF c = AlteDocumente THEN alte
        ELSE IF c \in miss THEN <<>> ELSE <<HaveFile>>]

InvVins == {VinA, VinB}

\* present = {cat for cat in critical if files.get(cat)};
\* missing = critical - present
MissingOf(files) == {c \in critical : files[c] = <<>>}

\* The scan tasks of one VIN: its Alte Documente PDFs, in listed order, when
\* it misses a critical category.
TasksOfVin(inv, vin) ==
    LET files == inv[vin]
        missing == MissingOf(files)
        pdfs == SelectSeq(files[AlteDocumente], IsPdfRel)
    IN  IF missing = {} THEN <<>>
        ELSE [i \in 1..Len(pdfs) |->
                 [vin |-> vin, rel |-> pdfs[i], missing |-> missing]]

\* scan_tasks: for vin, data in inventory.items()
ScanTasksOf(inv) == TasksOfVin(inv, VinA) \o TasksOfVin(inv, VinB)

\* x in list
InSeq(x, s) == \E i \in DOMAIN s : s[i] = x

\* list.remove(x): the first occurrence is removed
RECURSIVE ListRemove(_, _)
ListRemove(s, x) ==
    IF s = <<>> THEN <<>>
    ELSE IF Head(s) = x THEN Tail(s)
    ELSE <<Head(s)>> \o ListRemove(Tail(s), x)

\* The names a reclassified file may get on disk: its own (no renaming, file
\* gone, rename failed), the short name, the short name with a counter.
NewRels(rel, cat, rename_on_disk) ==
    IF rename_on_disk /\ ShortOf(cat) # ""
    THEN {rel, <<ShortOf(cat), 0, "pdf">>, <<ShortOf(cat), 1, "pdf">>}
    ELSE {rel}

\* A pass that moves the file into whatever category was detected.
ApplyAnyDetected(files, r, new_rel) ==
    IF r.cat = NoCat \/ ~InSeq(r.rel, files[AlteDocumente]) THEN files
    ELSE [files EXCEPT ![AlteDocumente] = ListRemove(@, r.rel),
                       ![r.cat] = Append(@, new_rel)]

\* One pass of the loop "Apply reclassifications" on files = inventory[vin].
ApplyOne(files, r, new_rel) ==
    IF r.cat = NoCat \/ r.cat \notin r.missing THEN files
    ELSE IF ~InSeq(r.rel, files[AlteDocumente]) THEN files
    ELSE [files EXCEPT ![AlteDocumente] = ListRemove(@, r.rel),
                       ![r.cat] = Append(@, new_rel)]

\* reclassify_by_content before it is called
InitReclass(inv, detect, rename_on_disk) ==
    [pc |-> "start", inventory0 |-> inv, detect |-> detect,
     rename_on_disk |-> rename_on_disk, scan_tasks |-> <<>>, pending |-> {},
     results |-> <<>>, applied |-> 0, scan_errors |-> 0, reclassified |-> 0]

\* The task selection: scan_tasks is built; no task, and the call returns.
ReclassSelect ==
    /\ reclass.pc = "start"
    /\ \E tasks \in {ScanTasksOf(inventory)} :
          reclass' = [reclass EXCEPT
                         !.scan_tasks = tasks,
                         !.pending = DOMAIN tasks,
                         !.pc = IF tasks = <<>> THEN "done" ELSE "scan"]
    /\ UNCHANGED <<inventory, no_vin, pipelineVars, mapVars>>

\* _do_scan_batch: one task is scanned; the tasks of a pool finish in any
\* order. A scan that raises counts as an error and gives no result.
ReclassScan(t) ==
    /\ reclass.pc = "scan"
    /\ t \in reclass.pending
    /\ LET task == reclass.scan_tasks[t]
           cat == reclass.detect[task.rel]
       IN  reclass' = [reclass EXCEPT
                          !.pending = @ \ {t},
                          !.results = IF cat = ScanError THEN @
                                      ELSE Append(@, [vin |-> task.vin,
                                                      rel |-> task.rel,
                                                      cat |-> cat,
                                                      missing |-> task.missing]),
                          !.scan_errors = IF cat = ScanError THEN @ + 1 ELSE @]
    /\ UNCHANGED <<inventory, no_vin, pipelineVars, mapVars>>

\* The next result is applied to the inventory.
ReclassApply ==
    /\ reclass.pc = "scan"
    /\ reclass.pending = {}
    /\ reclass.applied < Len(reclass.results)
    /\ LET r == reclass.results[reclass.applied + 1]
       IN  \E new_rel \in NewRels(r.rel, r.cat, reclass.rename_on_disk) :
           \E files \in {ApplyOne(inventory[r.vin], r, new_rel)} :
              /\ inventory' = [inventory EXCEPT ![r.vin] = files]
              /\ reclass' = [reclass EXCEPT
                                !.applied = @ + 1,
                                !.reclassified =
                                    IF files # inventory[r.vin] THEN @ + 1 ELSE @]
    /\ UNCHANGED <<no_vin, pipelineVars, mapVars>>

\* The statistics are returned.
ReclassReturn ==
    /\ reclass.pc = "scan"
    /\ reclass.pending = {}
    /\ reclass.applied = Len(reclass.results)
    /\ reclass' = [reclass EXCEPT !.pc = "done"]
    /\ UNCHANGED <<inventory, no_vin, pipelineVars, mapVars>>

\* The renaming on disk.  The files of the VIN folders are pdf_file: path ->
\* bytes, a path being <<vin, directory below the VIN folder, name>>.  A
\* listed file below a subdirectory carries the subdirectory as a fourth
\* component of its rel.
RelDir(rel) == IF Len(rel) > 3 THEN rel[4] ELSE ""

\* output_root / part / vin / rel
AbsOf(vin, rel) == <<vin, RelDir(rel), <<rel[1], rel[2], rel[3]>>>>

\* old_abs.parent / name
Sibling(abs, name) == <<abs[1], abs[2], name>>

\* f"{short}.pdf" (counter 0) and f"{short}_{counter}.pdf"
ShortFile(short, counter) == <<short, counter, "pdf">>

\* A renaming that takes the short name whatever lies there.
RenameTargetOverwriting(disk, old_abs, short) ==
    Sibling(old_abs, ShortFile(short, 0))

\* new_abs: the short name, or on a collision with another content the first
\* numbered name that is free.
RenameTarget(disk, old_abs, short) ==
    LET new_abs == Sibling(old_abs, ShortFile(short, 0))
        free == {c \in 1..(Cardinality(DOMAIN disk) + 1) :
                    Sibling(old_abs, ShortFile(short, c)) \notin DOMAIN disk}
    IN IF new_abs \in DOMAIN disk /\ ~ _files_identical(disk, old_abs, new_abs)
       THEN Sibling(old_abs, ShortFile(short, Min(free)))
       ELSE new_abs

\* The block "if rename_on_disk": [disk, new_rel].  The file keeps its name
\* when the category has no short name or the file is not there; it is
\* removed when the target holds the same bytes, else renamed.
RenameOnDisk(disk, vin, rel, cat) ==
    LET short == ShortOf(cat)
        old_abs == AbsOf(vin, rel)
        new_abs == RenameTarget(disk, old_abs, short)
        rest == DOMAIN disk \ {old_abs}
    IN IF short = "" \/ old_abs \notin DOMAIN disk
       THEN [disk |-> disk, new_rel |-> rel]
       ELSE IF new_abs \in DOMAIN disk /\ _files_identical(disk, old_abs, new_abs)
       THEN [disk |-> [p \in rest |-> disk[p]], new_rel |-> new_abs[3]]
       ELSE [disk |-> [p \in rest \cup {new_abs} |->
                          IF p = new_abs THEN disk[old_abs] ELSE disk[p]],
             new_rel |-> new_abs[3]]

\* The next result is applied to the inventory and, with rename_on_disk, to
\* the disk.
ReclassApplyOnDisk ==
    /\ reclass.pc = "scan"
    /\ reclass.pending = {}
    /\ reclass.applied < Len(reclass.results)
    /\ LET r == reclass.results[reclass.applied + 1]
           applies == /\ r.cat # NoCat
                      /\ r.cat \in r.missing
                      /\ InSeq(r.rel, inventory[r.vin][AlteDocumente])
       IN  \E d \in {IF applies /\ reclass.rename_on_disk
                      THEN RenameOnDisk(pdf_file, r.vin, r.rel, r.cat)
                      ELSE [disk |-> pdf_file, new_rel |-> r.rel]} :
           \E files \in {ApplyOne(inventory[r.vin], r, d.new_rel)} :
              /\ inventory' = [inventory EXCEPT ![r.vin] = files]
              /\ pdf_file' = d.disk
              /\ reclass' = [reclass EXCEPT
                                !.applied = @ + 1,
                                !.reclassified =
                                    IF files # inventory[r.vin] THEN @ + 1 ELSE @]
    /\ UNCHANGED <<no_vin, mapVars, planVars, ocr_disk_cache, last_call,
                   ledgerVars, execVars, phase, added, renameVars>>

\* The listed files of the runs that rename on disk, in the order of the
\* walk, and the paths their VIN folder may hold.
DiskRelOrder ==
    << <<"doc", 0, "PDF">>, <<"scan_001", 0, "pdf">>, <<"scan_001", 0, "pdf", "docs">> >>

DiskRels == Range(DiskRelOrder)

DiskAlteLists ==
    {s \in UNION {[1..n -> DiskRels] : n \in 0..MaxAlte} :
        \A i, j \in DOMAIN s :
           i < j => \E a, b \in DOMAIN DiskRelOrder :
                       a < b /\ DiskRelOrder[a] = s[i] /\ DiskRelOrder[b] = s[j]}

DiskShorts ==
    {<<VinA, "", ShortFile("casco", 0)>>, <<VinA, "", ShortFile("casco", 1)>>}

DiskBytes == {"a", "b"}

\* No inventory at hand, reclassify_by_content not called.
InitInventory ==
    /\ inventory = [v \in InvVins |-> FilesOf({}, <<>>)]
    /\ reclass = InitReclass(inventory, [f \in RelFiles |-> NoCat], FALSE)

----------------------------------------------------------------------------
(* Renaming of an output tree: rescan_apply_renames *)

\* range(1, 50): the numbered names taken for already renamed
ExpectedLimit == 50

\* f.name in expected_names
ExpectedName(fn, base) == fn[1] = base /\ fn[2] \in 0..(ExpectedLimit - 1)

\* The files are paths <<vin, directory, fn>> of the disk: path -> bytes.
\* The pass carries acc = [disk, renamed, deduped].

\* The loop over the hash classes of a group: class k has the keeper
\* keepers[k]; its other files are unlinked, then the keeper takes the new
\* name when it is free (single class: or is unlinked when the name is held
\* by the same bytes).  h0 is the disk the hashes were taken of.
RECURSIVE RenameClasses(_, _, _, _, _, _)
RenameClasses(acc, files, keepers, k, base_name, h0) ==
    IF k > Len(keepers) THEN acc
    ELSE LET keeper == keepers[k]
             single == Len(keepers) = 1
             dups == {files[i] : i \in {j \in DOMAIN files :
                                           h0[files[j]] = h0[keeper]}} \ {keeper}
             d1 == [p \in DOMAIN acc.disk \ dups |-> acc.disk[p]]
             new_name == <<base_name, IF single THEN 0 ELSE k>>
             new_path == Sibling(keeper, new_name)
             gone == [disk |-> [p \in DOMAIN d1 \ {keeper} |-> d1[p]],
                      renamed |-> acc.renamed,
                      deduped |-> acc.deduped + Cardinality(dups) + 1]
             moved == [disk |-> [p \in (DOMAIN d1 \ {keeper}) \cup {new_path} |->
                                    IF p = new_path THEN d1[keeper] ELSE d1[p]],
                       renamed |-> acc.renamed + 1,
                       deduped |-> acc.deduped + Cardinality(dups)]
             kept == [disk |-> d1, renamed |-> acc.renamed,
                      deduped |-> acc.deduped + Cardinality(dups)]
             acc1 == IF keeper[3] = new_name THEN kept
                     ELSE IF new_path \notin DOMAIN d1 THEN moved
                     ELSE IF single /\ _files_identical(d1, keeper, new_path) THEN gone
                     ELSE kept
         IN RenameClasses(acc1, files, keepers, k + 1, base_name, h0)

\* _rescan_rename_group(files, base_name, ...) on the disk of acc
_rescan_rename_group(acc, files, base_name) ==
    IF files = <<>> THEN acc
    ELSE IF \A i \in DOMAIN files : ExpectedName(files[i][3], base_name) THEN acc
    ELSE LET firsts == {i \in DOMAIN files :
                          \A j \in 1..(i - 1) :
                             acc.disk[files[j]] # acc.disk[files[i]]}
             order == OrderedSeq(firsts)
             keepers == [k \in 1..Len(order) |-> files[order[k]]]
         IN RenameClasses(acc, files, keepers, 1, base_name, acc.disk)

\* The sub-groups of TALON / CIV, one after the other.
RECURSIVE RescanSubGroups(_, _, _)
RescanSubGroups(acc, files, k) ==
    IF k > Len(SubGroupBases) THEN acc
    ELSE RescanSubGroups(
            _rescan_rename_group(acc,
                SelectSeq(files, LAMBDA p : SubGroupBase(p[3]) = SubGroupBases[k]),
                SubGroupBases[k]),
            files, k + 1)

\* for cat, short in _CAT_SHORT_NAMES.items(): the files of a VIN folder, in
\* the order of its walk, category by category.
RECURSIVE RescanCategories(_, _, _)
RescanCategories(acc, walk, k) ==
    IF k > Len(_CAT_SHORT_NAMES) THEN acc
    ELSE LET cat == _CAT_SHORT_NAMES[k][1]
             files == SelectSeq(walk, LAMBDA p : categorize_file(p[3]) = cat)
             acc1 == IF cat = TalonCiv THEN RescanSubGroups(acc, files, 1)
                     ELSE _rescan_rename_group(acc, files, <<_CAT_SHORT_NAMES[k][2]>>)
         IN RescanCategories(acc1, walk, k + 1)

\* for vin_dir in sorted(part_dir.iterdir()): the folders whose names start
\* with "_" are passed over.
RECURSIVE RescanVins(_, _, _)
RescanVins(acc, walk, vins) ==
    IF vins = <<>> THEN acc
    ELSE RescanVins(RescanCategories(acc,
                        SelectSeq(walk, LAMBDA p : p[1] = Head(vins)), 1),
                    walk, Tail(vins))

\* rescan_apply_renames(output_root): walk is the order in which rglob
\* yields the files.
rescan_apply_renames(disk, walk) ==
    RescanVins([disk |-> disk, renamed |-> 0, deduped |-> 0], walk,
               SortVins({p[1] : p \in DOMAIN disk} \ {NoVin}))

\* The orders a walk may yield the files of a set in.
WalkOrders(S) ==
    {w \in [1..Cardinality(S) -> S] : \A i, j \in DOMAIN w : w[i] = w[j] => i = j}

MaxRescans == 2

\* The invocations made so far
Rescans == IF last_call.fn = "rescan_apply_renames" THEN last_call.arg[1] ELSE 0

\* --apply-renames on an output tree
RescanApplyRenames ==
    /\ Rescans < MaxRescans
    /\ \E walk \in WalkOrders(DOMAIN pdf_file) :
       \E r \in {rescan_apply_renames(pdf_file, walk)} :
          /\ pdf_file' = r.disk
          /\ last_call' = [fn |-> "rescan_apply_renames", arg |-> <<Rescans + 1>>,
                           result |-> [renamed |-> r.renamed, deduped |-> r.deduped]]
    /\ UNCHANGED <<ocr_disk_cache, planVars, auxVars, ledgerVars, execVars,
                   phase, added, renameVars>>

\* The files of the output trees: policies under long names and under short
\* names, in a VIN folder, a subdirectory of it and a _NO_VIN folder.
MaxListed == 3

TreeNames ==
    {<<<<"polita", " ", "casco">>, 0>>, <<<<"casco", " ", "doc">>, 0>>,
     <<<<"casco">>, 0>>, <<<<"casco">>, 1>>, <<<<"casco">>, 2>>,
     <<<<"polita", "_", "rca">>, 0>>, <<<<"doc">>, 0>>}

TreePaths ==
    {<<VinA, "", fn>> : fn \in TreeNames}
    \cup {<<VinA, "docs", <<<<"casco">>, 0>>>>, <<NoVin, "", <<<<"polita", " ", "casco">>, 0>>>>}

----------------------------------------------------------------------------
(* Rescue of the _NO_VIN folders: rescan_rescue_no_vin *)

\* A file of a folder: <<stem, counter, extension>>.  The files a _NO_VIN
\* folder of the model may hold, in the order sorted(folder.rglob("*"))
\* yields them.
RescueOrder ==
    << <<<<"doc">>, 0, "jpg">>, <<<<"doc">>, 0, "pdf">>, <<<<"factura">>, 0, "pdf">> >>

RescueNames == Range(RescueOrder)

\* f.suffix.lower() == ".pdf"
IsPdfName(name) == LowerExt(name[3]) = "pdf"

\* The file contents of the model.
Contents == 1..MaxContents

\* The directories of the model: name -> content of the files they hold.
RescueDirs(names) == UNION {[S -> Contents] : S \in SUBSET names}

\* _short_name_for_category(cat, fn), as a file name; <<>> is None.
_short_name_for_category(cat, fn) ==
    IF cat = TalonCiv
    THEN LET tc == _detect_talon_civ(fn)
         IN  IF tc[1] /\ tc[2] THEN <<<<"TALON+CIV">>, 0, "pdf">>
             ELSE IF tc[1] THEN <<<<"talon">>, 0, "pdf">>
             ELSE IF tc[2] THEN <<<<"civ">>, 0, "pdf">>
             ELSE <<<<"talon_civ">>, 0, "pdf">>
    ELSE IF ShortOf(cat) # "" THEN <<<<ShortOf(cat)>>, 0, "pdf">>
    ELSE <<>>

\* The first free numbered name: counter = 1; while exists: counter += 1
NumberedName(dir, name) ==
    LET free == {c \in 1..(Cardinality(DOMAIN dir) + 1) :
                    <<name[1], c, name[3]>> \notin DOMAIN dir}
    IN  <<name[1], Min(free), name[3]>>

\* _place_file_with_short_name(src, target_dir, cat): the source directory
\* and the target directory afterwards.
_place_file_with_short_name(src_dir, dst_dir, name, cat) ==
    LET short_fn == _short_name_for_category(cat, <<name[1], name[2]>>)
        dst == IF short_fn # <<>> THEN short_fn ELSE name
        gone == [n \in DOMAIN src_dir \ {name} |-> src_dir[n]]
    IN  IF dst \in DOMAIN dst_dir /\ dst_dir[dst] = src_dir[name]
        THEN [src |-> gone, dst |-> dst_dir]
        ELSE LET final == IF dst \in DOMAIN dst_dir
                          THEN NumberedName(dst_dir, dst) ELSE dst
             IN  [src |-> gone,
                  dst |-> [n \in DOMAIN dst_dir \cup {final} |->
                              IF n = final THEN src_dir[name] ELSE dst_dir[n]]]

\* The category of an item at the move: by file name first, then, for Alte
\* Documente, the highest-priority category detected in the PDF.
RescueCategory(name, pdf_results) ==
    LET cat == categorize_file(<<name[1], name[2]>>)
    IN  IF cat = AlteDocumente /\ name \in DOMAIN pdf_results
        THEN LET hits == {k \in DOMAIN _CONTENT_PRIORITY :
                             _CONTENT_PRIORITY[k] \in pdf_results[name].cats}
             IN  IF hits = {} THEN cat ELSE _CONTENT_PRIORITY[Min(hits)]
        ELSE cat

\* The cross-copy of the files of target into other_target: a name that
\* exists there is left alone.
CrossCopyInto(target, other_target) ==
    [n \in DOMAIN other_target \cup DOMAIN target |->
        IF n \in DOMAIN other_target THEN other_target[n] ELSE target[n]]

\* The items of a directory in sorted order
SortedItems(dir) == SelectSeq(RescueOrder, LAMBDA n : n \in DOMAIN dir)

\* rescan_rescue_no_vin before it is called: one partition with one folder
\* under _NO_VIN, and the VIN folders of the partition.
InitRescue(folder, name_vins, scans, out) ==
    [pc |-> "start", folder |-> folder, folder0 |-> folder,
     folder_exists |-> TRUE, no_vin_exists |-> TRUE,
     name_vins |-> name_vins, scans |-> scans, out |-> out, out0 |-> out,
     pdf_results |-> <<>>, vins |-> {}, primary_vin |-> "",
     queue |-> <<>>, others |-> <<>>, moved_files |-> 0, rescued_folders |-> 0]

\* The scan phase: the PDFs of the folder are the scan tasks; no task, and
\* the call returns.  The VINs of the folder are those of its PDFs, or, if
\* none, those of its name; none at all, and the folder is passed over.
RescueCollect ==
    /\ no_vin.pc = "start"
    /\ LET tasks == {n \in DOMAIN no_vin.folder : IsPdfName(n)}
           results == [n \in tasks |-> no_vin.scans[n]]
           folder_vins == UNION {results[n].vins : n \in tasks}
           vins == IF folder_vins # {} THEN folder_vins ELSE no_vin.name_vins
       IN  no_vin' =
             IF tasks = {} THEN [no_vin EXCEPT !.pc = "done"]
             ELSE IF vins = {}
             THEN [no_vin EXCEPT !.pc = "final", !.pdf_results = results]
             ELSE [no_vin EXCEPT !.pc = "move", !.pdf_results = results,
                                 !.vins = vins,
                                 !.primary_vin = SortVins(vins)[1],
                                 !.queue = SortedItems(no_vin.folder)]
    /\ UNCHANGED <<reclassVars, pipelineVars, mapVars>>

\* The next item of the folder is placed in the folder of the primary VIN.
RescueMove ==
    /\ no_vin.pc = "move"
    /\ no_vin.queue # <<>>
    /\ LET item == Head(no_vin.queue)
           v == no_vin.primary_vin
       IN  \E r \in {_place_file_with_short_name(
                         no_vin.folder, no_vin.out[v], item,
                         RescueCategory(item, no_vin.pdf_results))} :
              no_vin' = [no_vin EXCEPT !.folder = r.src,
                                       !.out[v] = r.dst,
                                       !.queue = Tail(@),
                                       !.moved_files = @ + 1]
    /\ UNCHANGED <<reclassVars, pipelineVars, mapVars>>

\* Every item is placed: the other VINs are taken in sorted order.
RescueMoved ==
    /\ no_vin.pc = "move"
    /\ no_vin.queue = <<>>
    /\ no_vin' = [no_vin EXCEPT
                     !.pc = "cross",
                     !.others = SortVins(no_vin.vins \ {no_vin.primary_vin})]
    /\ UNCHANGED <<reclassVars, pipelineVars, mapVars>>

\* Cross-copy to the next other VIN.
RescueCrossCopy ==
    /\ no_vin.pc = "cross"
    /\ no_vin.others # <<>>
    /\ LET w == Head(no_vin.others)
       IN  no_vin' = [no_vin EXCEPT
                         !.out[w] = CrossCopyInto(no_vin.out[no_vin.primary_vin], @),
                         !.others = Tail(@)]
    /\ UNCHANGED <<reclassVars, pipelineVars, mapVars>>

\* Clean up the _NO_VIN folder when no file remains in it.
RescueCleanFolder ==
    /\ no_vin.pc = "cross"
    /\ no_vin.others = <<>>
    /\ no_vin' = IF DOMAIN no_vin.folder = {}
                 THEN [no_vin EXCEPT !.pc = "final", !.folder_exists = FALSE,
                                     !.rescued_folders = @ + 1]
                 ELSE [no_vin EXCEPT !.pc = "final"]
    /\ UNCHANGED <<reclassVars, pipelineVars, mapVars>>

\* Clean up _NO_VIN when no file remains below it; the statistics are returned.
RescueCleanNoVin ==
    /\ no_vin.pc = "final"
    /\ no_vin' = IF DOMAIN no_vin.folder = {}
                 THEN [no_vin EXCEPT !.pc = "done", !.no_vin_exists = FALSE]
                 ELSE [no_vin EXCEPT !.pc = "done"]
    /\ UNCHANGED <<reclassVars, pipelineVars, mapVars>>

\* No _NO_VIN folder at hand.
InitNoVin ==
    no_vin = InitRescue(<<>>, {}, <<>>, [v \in InvVins |-> <<>>])

----------------------------------------------------------------------------
(* Initial states *)

\* The state outside the planner, the executor and the scans at start.
InitAux ==
    /\ InitMap
    /\ InitInventory
    /\ InitNoVin
    /\ prescan = InitPrescan([p \in Pdfs |-> "ok"], 1, FALSE)

\* The ledger and the executor before anything is planned.
InitLedger ==
    /\ changes = <<>>
    /\ planned_dests = <<>>
    /\ plan0 = <<>>
    /\ added = <<>>
    /\ faulty = {}
    /\ \E gone \in SUBSET Vanishing : fs = [p \in SrcFiles \ gone |-> SrcContent(p)]
    /\ dirs = {SrcDir}
    /\ workers = 1
    /\ dry_run = TRUE
    /\ jsonl = FALSE
    /\ next_i = 1
    /\ pc = [t \in Threads |-> "idle"]
    /\ cur = [t \in Threads |-> 0]
    /\ actual = [t \in Threads |-> NoPath]
    /\ attempt = [t \in Threads |-> 0]
    /\ last_err = [t \in Threads |-> "none"]
    /\ jsonl_lock = 0
    /\ log = <<>>
    /\ bar = 0
    /\ phase = "plan"
    /\ run = 1
    /\ stats = [renamed |-> 0, deduped |-> 0]
    /\ original_names = <<>>

InitScan ==
    /\ ocr_disk_cache = NoEntry
    /\ pdf_file = <<>>
    /\ last_call = NoCall

InitPlanning ==
    /\ pdf_cache = <<>>
    /\ pdf_content_cats = <<>>
    /\ warnings = <<>>
    /\ stage = "start"
    /\ marks = [planned |-> 0, crossed |-> 0]

\* The rest of the pipeline at rest while something else is looked at.
InitRest ==
    /\ InitLedger
    /\ DOMAIN fs = SrcFiles
    /\ InitPlanning
    /\ InitScan
    /\ tree = {}
    /\ scan_pdf = FALSE
    /\ set_first = VinA

\* The pre-scan is started on PDFs of any nature, with or without pool.
InitPrescanning ==
    /\ InitRest
    /\ InitMap
    /\ InitInventory
    /\ InitNoVin
    /\ prescan \in {InitPrescan(n, w, b) :
                        n \in [Pdfs -> Natures], w \in 1..MaxWorkers, b \in BOOLEAN}

\* reclassify_by_content is called on an inventory of two VINs, each missing
\* some critical categories or none and listing some Alte Documente; what a
\* scan of each listed PDF detects is drawn with it.
InitReclassing ==
    /\ InitRest
    /\ InitMap
    /\ prescan = InitPrescan([p \in Pdfs |-> "ok"], 1, FALSE)
    /\ InitNoVin
    /\ \E ma \in SUBSET MissCats, mb \in SUBSET MissCats,
          aa \in AlteLists, ab \in AlteLists :
          inventory = [v \in InvVins |-> IF v = VinA THEN FilesOf(ma, aa)
                                         ELSE FilesOf(mb, ab)]
    /\ \E detect \in [RelFiles -> Detections], rename_on_disk \in BOOLEAN :
          /\ \A f \in RelFiles :
                \/ detect[f] = NoCat
                \/ /\ IsPdfRel(f)
                   /\ \E v \in InvVins : InSeq(f, inventory[v][AlteDocumente])
          /\ reclass = InitReclass(inventory, detect, rename_on_disk)

\* rescan_rescue_no_vin is called on a partition with one _NO_VIN folder of
\* some files, a folder name with some VINs or none, PDFs whose scans find
\* some VINs and categories or none, and VIN folders that may hold a file.
InitRescuing ==
    /\ InitRest
    /\ InitMap
    /\ prescan = InitPrescan([p \in Pdfs |-> "ok"], 1, FALSE)
    /\ InitInventory
    /\ \E folder \in RescueDirs(RescueNames) \ {<<>>},
          name_vins \in SUBSET InvVins,
          scans \in [RescueNames -> [vins : SUBSET InvVins, cats : {{}, {"RCA", "CASCO"}}]],
          out \in [InvVins -> RescueDirs({<<<<"fact">>, 0, "pdf">>})] :
          /\ \A n \in RescueNames :
                n \notin DOMAIN folder \/ ~IsPdfName(n)
                   => scans[n] = [vins |-> {}, cats |-> {}]
          /\ no_vin = InitRescue(folder, name_vins, scans, out)

Init ==
    /\ InitLedger
    /\ InitAux
    /\ InitPlanning
    /\ InitScan
    /\ tree = {}
    /\ scan_pdf = FALSE
    /\ set_first = VinA

\* One PDF with some text, an empty OCR cache.
InitScanning ==
    /\ InitLedger
    /\ InitAux
    /\ DOMAIN fs = SrcFiles
    /\ InitPlanning
    /\ tree = {}
    /\ scan_pdf = FALSE
    /\ set_first = VinA
    /\ ocr_disk_cache = NoEntry
    /\ pdf_file \in {[text |-> t, fp |-> 0] : t \in ScanTexts}
    /\ last_call = NoCall

\* A root directory and a range are at hand.
InitPartitions ==
    /\ InitLedger
    /\ DOMAIN fs = SrcFiles
    /\ InitAux
    /\ InitPlanning
    /\ tree = {}
    /\ scan_pdf = FALSE
    /\ set_first = VinA
    /\ ocr_disk_cache = NoEntry
    /\ pdf_file = <<>>
    /\ last_call \in {[fn |-> "", result |-> <<>>,
                        arg |-> [listing |-> l, range_start |-> rs, range_end |-> re]] :
                          l \in RootListings, rs \in 0..MaxRange, re \in 0..MaxRange}

\* A file name is at hand, not categorised yet.
InitCategorize ==
    /\ InitLedger
    /\ InitAux
    /\ DOMAIN fs = SrcFiles
    /\ InitPlanning
    /\ tree = {}
    /\ scan_pdf = FALSE
    /\ set_first = VinA
    /\ ocr_disk_cache = NoEntry
    /\ pdf_file = <<>>
    /\ last_call \in {[fn |-> "", arg |-> n, result |-> <<>>] : n \in ScanNames}

\* The planner is started on one of the source roots.
InitPlan ==
    /\ InitLedger
    /\ InitAux
    /\ DOMAIN fs = SrcFiles
    /\ InitPlanning
    /\ InitScan
    /\ tree \in Trees
    /\ scan_pdf \in BOOLEAN
    /\ set_first \in {VinA, VinB, FillerVin(1)}

Next ==
    \/ AddCopy
    \/ AddFolder
    \/ Execute
    \/ DryRunStep
    \/ \E t \in Threads : SubmitCopy(t)
    \/ \E t \in Threads : ExecCheck(t)
    \/ \E t \in Threads : CopyAttempt(t)
    \/ \E t \in Threads : CopyWrite(t)
    \/ \E t \in Threads : LogNone(t)
    \/ \E t \in Threads : LogBegin(t)
    \/ \E t \in Threads : LogEnd(t)
    \/ CreateFolder
    \/ Return
    \/ Rerun

Spec == Init /\ [][Next]_vars

\* Planning followed by the rename/dedup pass.
NextRename == AddDoc \/ PlanCategoryRenames

SpecRename == Init /\ [][NextRename]_vars

NextPlan ==
    \/ BulkPrescanPdfs
    \/ ScanAndPlan
    \/ PlanPdfCrossCopies
    \/ PlanContractGapFill

SpecPlan == InitPlan /\ [][NextPlan]_vars

\* Two planning runs of one tree, each in a process of its own.
NextReplan ==
    \/ BulkPrescanPdfs
    \/ ScanAndPlan
    \/ NewProcess
    \/ Replan

SpecReplan == InitPlan /\ [][NextReplan]_vars

\* A tree of policies is planned and the plan renamed.
InitPlanRename ==
    /\ InitLedger
    /\ InitAux
    /\ DOMAIN fs = SrcFiles
    /\ InitPlanning
    /\ InitScan
    /\ tree \in RenameTrees
    /\ scan_pdf = FALSE
    /\ set_first \in {VinA, VinB, FillerVin(1)}

NextPlanRename == ScanAndPlan \/ RenamePlanned

SpecPlanRename == InitPlanRename /\ [][NextPlanRename]_vars

NextScan ==
    \/ ReclassifyByContent
    \/ RescueScan
    \/ ModifyFile

SpecScan == InitScanning /\ [][NextScan]_vars

\* Runs that save and load the rename map of one output root.
NextMap == SaveRenameMap \/ LoadRenameMap

SpecMap == Init /\ [][NextMap]_vars

\* The partition directories of the root at hand are listed.
NextPartitions == GetPartitionDirs

SpecPartitions == InitPartitions /\ [][NextPartitions]_vars

NextReclass ==
    \/ ReclassSelect
    \/ \E t \in 1..(2 * MaxAlte) : ReclassScan(t)
    \/ ReclassApply
    \/ ReclassReturn

SpecReclass == InitReclassing /\ [][NextReclass]_vars

\* reclassify_by_content is called on the inventory of one VIN folder whose
\* listed PDFs are on disk or not, beside short-named files or not.
InitRenamingOnDisk ==
    /\ InitLedger
    /\ DOMAIN fs = SrcFiles
    /\ InitPlanning
    /\ tree = {}
    /\ scan_pdf = FALSE
    /\ set_first = VinA
    /\ ocr_disk_cache = NoEntry
    /\ last_call = NoCall
    /\ InitMap
    /\ prescan = InitPrescan([p \in Pdfs |-> "ok"], 1, FALSE)
    /\ InitNoVin
    /\ \E ma \in {{}, {"CASCO"}, {"CASCO", TalonCiv}}, aa \in DiskAlteLists :
          inventory = [v \in InvVins |-> IF v = VinA THEN FilesOf(ma, aa)
                                         ELSE FilesOf({}, <<>>)]
    /\ \E detect \in [DiskRels -> {NoCat, "CASCO", TalonCiv}],
          rename_on_disk \in BOOLEAN :
          /\ \A f \in DiskRels :
                detect[f] = NoCat \/ InSeq(f, inventory[VinA][AlteDocumente])
          /\ reclass = InitReclass(inventory, detect, rename_on_disk)
    /\ \E on_disk \in SUBSET ({AbsOf(VinA, f) : f \in DiskRels} \cup DiskShorts) :
          /\ \A f \in DiskRels :
                AbsOf(VinA, f) \in on_disk => InSeq(f, inventory[VinA][AlteDocumente])
          /\ pdf_file \in [on_disk -> DiskBytes]

NextRenameOnDisk ==
    \/ ReclassSelect
    \/ \E t \in 1..(2 * MaxAlte) : ReclassScan(t)
    \/ ReclassApplyOnDisk
    \/ ReclassReturn

SpecRenameOnDisk == InitRenamingOnDisk /\ [][NextRenameOnDisk]_vars

\* An output tree of some files, before rescan_apply_renames.
InitRescanning ==
    /\ InitLedger
    /\ DOMAIN fs = SrcFiles
    /\ InitPlanning
    /\ tree = {}
    /\ scan_pdf = FALSE
    /\ set_first = VinA
    /\ ocr_disk_cache = NoEntry
    /\ last_call = NoCall
    /\ InitAux
    /\ \E on_disk \in SUBSET TreePaths :
          /\ on_disk # {}
          /\ Cardinality(on_disk) <= MaxListed
          /\ pdf_file \in [on_disk -> DiskBytes]

NextRescan == RescanApplyRenames

SpecRescan == InitRescanning /\ [][NextRescan]_vars

NextRescue ==
    \/ RescueCollect
    \/ RescueMove
    \/ RescueMoved
    \/ RescueCrossCopy
    \/ RescueCleanFolder
    \/ RescueCleanNoVin

SpecRescue == InitRescuing /\ [][NextRescue]_vars

NextPrescan ==
    \/ PrescanStart
    \/ \E p \in Pdfs : WorkerTake(p)
    \/ \E p \in Pdfs : WorkerFinish(p)
    \/ \E p \in Pdfs : WorkerDies(p)
    \/ \E p \in Pdfs : Collect(p)
    \/ PoolEnd
    \/ SequentialScan
    \/ SequentialEnd

SpecPrescan == InitPrescanning /\ [][NextPrescan]_vars

\* Every step that can be taken is taken in the end: processes run, the
\* parent goes on.
FairPrescan == SpecPrescan /\ WF_vars(NextPrescan)

\* The file name at hand is categorised.
NextCategorize == CategorizeFile

SpecCategorize == InitCategorize /\ [][NextCategorize]_vars

----------------------------------------------------------------------------
(* Reference notions used by the properties *)

\* The files under the source root, with their contents.
SourceTree(f) == [p \in {q \in DOMAIN f : IsSource(q)} |-> f[p]]

\* The contents of the files present under the output root.
OutContents(f) == {f[p] : p \in {q \in DOMAIN f : ~ IsSource(q)}}

CopyEntries == {k \in 1..Len(changes) : changes[k].action = "copy_file"}

NoneFailed == \A k \in 1..Len(changes) : changes[k].status # "failed"

\* Sequential execution of the entries es, in order, on the file system f,
\* when no operation fails: the file system it leaves.
RECURSIVE SeqExec(_, _)
SeqExec(f, es) ==
    IF es = <<>> THEN f
    ELSE LET e == Head(es)
         IN IF e.action # "copy_file" \/ ~ _exists(f, e.source)
            THEN SeqExec(f, Tail(es))
            ELSE LET r == _safe_dest(f, e.source, e.destination)
                 IN IF r[2] = "skip"
                    THEN SeqExec(f, Tail(es))
                    ELSE SeqExec([p \in DOMAIN f \cup {r[1]} |->
                                     IF p = r[1] THEN f[e.source] ELSE f[p]],
                                 Tail(es))

\* The collision policy as the specification words it, for a source of content c
\* aimed at dst: the path chosen and whether the copy is written or skipped.
ExpectedPlace(f, c, dst) ==
    IF dst \notin DOMAIN f THEN <<dst, "write">>
    ELSE IF f[dst] = c THEN <<dst, "skip">>
    ELSE LET cand(n) == <<dst[1], dst[2], n>>
             usable == {n \in 1..(Cardinality(DOMAIN f) + 1) :
                          cand(n) \notin DOMAIN f \/ f[cand(n)] = c}
             first == Min(usable)
         IN IF cand(first) \in DOMAIN f
            THEN <<cand(first), "skip">> ELSE <<cand(first), "write">>

----------------------------------------------------------------------------
(* C1: planning followed by execute (dry run or not, any worker count) never
   creates, modifies, renames or deletes a file or directory under the source
   root: every step leaves the set of source files, the content of each and
   the source directory as they were. *)
C1_SourceReadOnly ==
    [][/\ SourceTree(fs') = SourceTree(fs)
       /\ (SrcDir \in dirs') = (SrcDir \in dirs)]_vars

C1_Witness ==
    /\ phase = "done" /\ ~ dry_run /\ workers > 1
    /\ \E k \in CopyEntries : changes[k].status = "done"

(* C2: with workers > 1, whatever the interleaving of the worker threads, the
   set of file contents present in the output after a run in which nothing
   failed is the one sequential execution in ledger order leaves: every
   output file is a complete copy of a source and no content is lost. *)
C2_ThreadedEqualsSequential ==
    (phase = "done" /\ run = 1 /\ ~ dry_run /\ workers > 1 /\ NoneFailed)
        => OutContents(fs) = OutContents(SeqExec(SourceTree(fs), plan0))

\* One step of a sequential run, held against the collision policy.
C3_Step ==
    (phase = "exec" /\ workers = 1 /\ ~ dry_run) =>
        /\ \A t \in Threads :
              (/\ pc[t] = "check" /\ pc'[t] # "check"
               /\ changes[cur[t]].source \in DOMAIN fs
               /\ changes'[cur[t]].status # "failed")
              => LET k == cur[t]
                     e == ExpectedPlace(fs, fs[changes[k].source],
                                        changes[k].destination)
                 IN IF e[2] = "skip"
                    THEN /\ changes'[k].status = "skipped"
                         /\ fs' = fs
                    ELSE /\ pc'[t] = "copy"
                         /\ actual'[t] = e[1]
                         /\ changes'[k].destination = e[1]
        /\ \A t \in Threads :
              (pc[t] = "write" /\ pc'[t] # "write")
              => /\ fs'[actual[t]] = SrcContent(changes[cur[t]].source)
                 /\ changes'[cur[t]].status = "done"
        /\ \A p \in DOMAIN fs :
              fs[p] # "partial" => (p \in DOMAIN fs' /\ fs'[p] = fs[p])
        /\ (phase' = "done" /\ faulty = {}) =>
              \A k \in CopyEntries :
                 changes[k].source \in DOMAIN fs =>
                    /\ changes'[k].status \in {"done", "skipped"}
                    /\ \E p \in DOMAIN fs' :
                          /\ Parent(p) = Parent(plan0[k].destination)
                          /\ fs'[p] = SrcContent(changes[k].source)

(* C3: a copy executed sequentially follows the collision policy: written to
   D when D is absent, skipped when D is byte-identical, else placed at the
   first absent candidate stem_1, stem_2, ... (a trailing _N stripped first)
   or skipped at a byte-identical candidate met first; a complete existing
   file is never overwritten; and when no operation fails every entry whose
   source exists ends done or skipped with its content present in its
   destination folder. *)
C3_SequentialCollisionPolicy == [][C3_Step]_vars

\* An entry aimed at x_1, occupied by other content, has been written to x_2.
C3_Witness ==
    /\ phase = "done" /\ workers = 1 /\ run = 1
    /\ \E k \in CopyEntries :
          /\ changes[k].status = "done"
          /\ plan0[k].destination[3] = 1
          /\ changes[k].destination[3] = 2
          /\ fs[<<"V1", <<"x">>, 1>>] # fs[<<"V1", <<"x">>, 2>>]

(* C4: running plan + execute a second time on the same unchanged source and
   the same output root makes no new copy: every copy_file entry of the
   second run ends skipped, for any worker count in either run. *)
C4_SecondRunAllSkipped ==
    (run = 2 /\ phase = "done")
        => \A k \in CopyEntries : changes[k].status = "skipped"

(* C5 as the specification states it: after any sequence of Ledger.add calls
   no two copy_file entries share a destination unless they also share a
   source (a copy whose destination is already planned is dropped). *)
C5_NoSharedDestination ==
    phase = "plan" =>
        \A i, j \in CopyEntries :
           (i < j /\ changes[i].destination = changes[j].destination)
              => changes[i].source = changes[j].source

(* C5, amended: after any sequence of Ledger.add calls, a copy_file add has
   been dropped only when the last copy entry planned for its destination had
   the same source: every call's entry is in the ledger, two entries with the
   same source and destination are separated by an entry for that destination
   with another source, and the planned-destination index maps exactly the
   destinations of the copy entries, each to the source of the last entry
   planned for it. *)
C5_DropOnlySameSource ==
    phase = "plan" =>
        /\ Len(changes) <= Len(added)
        /\ \A n \in 1..Len(added) : \E k \in 1..Len(changes) : changes[k] = added[n]
        /\ \A i, j \in CopyEntries :
              (/\ i < j
               /\ changes[i].destination = changes[j].destination
               /\ changes[i].source = changes[j].source)
              => \E m \in CopyEntries :
                    /\ i < m /\ m < j
                    /\ changes[m].destination = changes[i].destination
                    /\ changes[m].source # changes[i].source
        /\ DOMAIN planned_dests = {changes[k].destination : k \in CopyEntries}
        /\ \A d \in DOMAIN planned_dests :
              planned_dests[d] =
                 changes[Max({k \in CopyEntries : changes[k].destination = d})].source

\* Two copy entries aimed at one destination from different sources.
C5_Witness ==
    /\ phase = "plan"
    /\ \E i, j \in CopyEntries :
          /\ i < j
          /\ changes[i].destination = changes[j].destination
          /\ changes[i].source # changes[j].source

(* C6: a failure of one operation never aborts the run: when a non-dry-run
   execute is over, every entry has status done, skipped or failed. *)
C6_NoEntryLeftPlanned ==
    (phase \in {"done", "aborted"} /\ ~ dry_run)
        => \A k \in 1..Len(changes) :
              changes[k].status \in {"done", "skipped", "failed"}

\* One step of a worker in the retry loop, held against the retry policy.
C7_Step ==
    \A t \in Threads :
       /\ (/\ pc[t] = "copy"
           /\ <<pc'[t], attempt'[t], last_err'[t]>> # <<pc[t], attempt[t], last_err[t]>>) =>
             /\ pc'[t] = "copy" =>
                   /\ last_err'[t] = "lock"
                   /\ attempt'[t] = attempt[t] + 1
                   /\ attempt'[t] < 5
                   /\ changes'[cur[t]].status = "planned"
             /\ pc'[t] = "write" => attempt[t] + 1 <= 5
             /\ (pc'[t] = "log" /\ last_err'[t] = "lock") =>
                   /\ attempt[t] + 1 = 5
                   /\ changes'[cur[t]].status = "failed"
             /\ last_err'[t] = "other" =>
                   /\ pc'[t] = "log"
                   /\ changes'[cur[t]].status = "failed"
             /\ pc'[t] \in {"copy", "write", "log"}
       /\ (pc[t] = "write" /\ pc'[t] # "write") =>
             changes'[cur[t]].status = "done"

(* C7: a copy whose every attempt fails with a lock violation is attempted
   exactly 5 times and then marked failed; a copy that succeeds on attempt
   k <= 5 is marked done; any other OSError marks it failed at once, with no
   further attempt. *)
C7_RetryPolicy == [][C7_Step]_vars

C7_Witness ==
    \E t \in Threads :
       /\ pc[t] = "log" /\ last_err[t] = "lock"
       /\ changes[cur[t]].status = "failed"

\* Every line of the log is whole: its fragments are adjacent and agree.
LinesWhole ==
    \A n \in 1..Len(log) :
       /\ (n % 2 = 1) => log[n].part = "open"
       /\ (n % 2 = 0) => /\ log[n].part = "close"
                         /\ log[n].entry = log[n - 1].entry
                         /\ log[n].status = log[n - 1].status

(* C8: with a log path, for any worker count: the lines of the JSONL log are
   never interleaved (each line is written whole before the next begins), the
   status in each line is the status of its entry from then on, and when a
   non-dry-run execute returns the log holds exactly one line per entry. *)
C8_LogOneLinePerEntry ==
    /\ LinesWhole
    /\ \A n \in 1..Len(log) : log[n].status = changes[log[n].entry].status
    /\ (phase = "done" /\ ~ dry_run /\ jsonl) =>
          /\ Len(log) = 2 * Len(changes)
          /\ \A k \in 1..Len(changes) :
                Cardinality({n \in 1..Len(log) :
                                log[n].entry = k /\ log[n].part = "open"}) = 1

\* Two workers have logged their entries in the order opposite to the ledger's.
C8_Witness ==
    /\ phase = "done" /\ jsonl /\ workers > 1
    /\ Len(log) = 4
    /\ log[1].entry = 2 /\ log[3].entry = 1

----------------------------------------------------------------------------
(* Reference notions for the rename/dedup pass *)

\* Two sources have the same content hash: the same readable bytes, or the
\* same path (an unreadable file hashes to its path).
SameHash(p, q) ==
    \/ p = q
    \/ p \in DOMAIN fs /\ q \in DOMAIN fs /\ fs[p] = fs[q]

\* The base name of the rename group of an entry: the short name of the
\* category of its destination name, the sub-group base for TALON / CIV,
\* <<>> for an entry no group holds.
GroupOf(c) ==
    IF c.action # "copy_file" THEN <<>>
    ELSE LET fn == Name(c.destination)
             cat == categorize_file(fn)
         IN IF cat = TalonCiv THEN SubGroupBase(fn)
            ELSE IF ShortOf(cat) # "" THEN <<ShortOf(cat)>>
            ELSE <<>>

(* C9 as the specification states it: after the rename/dedup pass, within one
   VIN no two planned files share both the category and the content hash. *)
C9_NoSameCategoryAndHash ==
    phase = "renamed" =>
        \A i, j \in CopyEntries :
           (/\ i < j
            /\ changes[i].vin = changes[j].vin
            /\ categorize_file(Name(changes[i].destination))
                  = categorize_file(Name(changes[j].destination)))
           => ~ SameHash(changes[i].source, changes[j].source)

(* C9, amended: after the rename/dedup pass, within one VIN no two planned
   files of the same rename group (a category that has a short name, or one
   sub-group of TALON / CIV) share a content hash.  Files of different
   TALON / CIV sub-groups, and files of Alte Documente, may. *)
C9_NoSameGroupAndHash ==
    phase = "renamed" =>
        \A i, j \in CopyEntries :
           (/\ i < j
            /\ changes[i].vin = changes[j].vin
            /\ GroupOf(changes[i]) # <<>>
            /\ GroupOf(changes[i]) = GroupOf(changes[j]))
           => ~ SameHash(changes[i].source, changes[j].source)

\* A duplicate was removed, and two files of TALON / CIV with the same
\* content survive in different sub-groups.
C9_Witness ==
    /\ phase = "renamed"
    /\ stats.deduped > 0
    /\ \E i, j \in CopyEntries :
          /\ i < j
          /\ changes[i].vin = changes[j].vin
          /\ categorize_file(Name(changes[i].destination)) = TalonCiv
          /\ categorize_file(Name(changes[j].destination)) = TalonCiv
          /\ SameHash(changes[i].source, changes[j].source)

\* The step of the rename/dedup pass, held against its functional statement.
C10_Step ==
    (phase = "plan" /\ phase' = "renamed") =>
        LET old == changes
            group(i) == GroupOf(old[i])
            G(i) == {j \in 1..Len(old) :
                        /\ old[j].action = "copy_file"
                        /\ old[j].vin = old[i].vin
                        /\ group(j) = group(i)}
            first(i) ==
                \/ group(i) = <<>>
                \/ \A j \in G(i) : j < i => ~ SameHash(old[j].source, old[i].source)
            keep == {i \in 1..Len(old) : first(i)}
            nh(i) == Cardinality({j \in G(i) : first(j)})
            rank(i) == Cardinality({j \in G(i) : first(j) /\ j <= i})
            expected(i) ==
                IF group(i) = <<>> THEN old[i]
                ELSE [old[i] EXCEPT !.destination =
                         <<Parent(old[i].destination), group(i),
                           IF nh(i) = 1 THEN 0 ELSE rank(i)>>]
            order == OrderedSeq(keep)
        IN /\ Len(changes') = Cardinality(keep)
           /\ \A m \in 1..Len(changes') : changes'[m] = expected(order[m])
           /\ stats'.deduped = Len(old) - Len(changes')
           /\ stats'.renamed = Cardinality({i \in keep : group(i) # <<>>})

(* C10: the rename/dedup pass, in each (VIN, category) group whose category
   has a short name B (each TALON / CIV sub-group on its own): keeps exactly
   the first entry, in ledger order, of each distinct source content hash;
   names the survivor B.pdf when the group has one hash, else B_1.pdf,
   B_2.pdf, ... in order of first appearance of the hashes; counts in
   `deduped` the entries removed; and leaves every other entry (Alte
   Documente among them) as it was. *)
C10_RenameDedupGroup == [][C10_Step]_vars

\* Three CASCO documents of one VIN, two of them identical: the duplicate is
\* gone, the survivors are casco_1.pdf and casco_2.pdf.
C10_Witness ==
    /\ phase = "renamed"
    /\ stats.deduped = 1
    /\ Len(changes) = 2
    /\ changes[1].destination = <<"V1", <<"casco">>, 1>>
    /\ changes[2].destination = <<"V1", <<"casco">>, 2>>

----------------------------------------------------------------------------
(* Claims on planning, under SpecPlan *)

(* C11 as the specification states it: for source partitions whose names
   differ only by a trailing " - Part N" suffix, every planned destination
   lies under one output folder, and no planned output folder carries a
   " - Part N" suffix. *)
C11_NoSuffixedOutput ==
    \A j, k \in 1..Len(changes) :
        LET p == changes[j].source[1][1]
            q == changes[k].source[1][1]
            out == changes[k].destination[1][1]
        IN /\ \A i \in DOMAIN out : out[i] \notin PartSuffixes
           /\ (k <= marks.planned /\ j <= marks.planned
               /\ (\/ SubSeq(p, 1, Len(p) - 1) = q
                   \/ SubSeq(p, 1, Len(p) - 1) = SubSeq(q, 1, Len(q) - 1)))
              => changes[j].destination[1][1] = out

(* C11, amended: every destination planned by scan_and_plan lies under the
   output folder named by the canonical name of its source partition, which
   is the partition's name with one trailing " - Part N" removed; the folder
   of its VIN (or _NO_VIN) is a direct child of that output folder; and every
   planned destination, cross-copies and gap-fills included, lies in a VIN
   folder directly under the canonical name of one of the source partitions.
   A planned output folder carries a suffix only when a source partition
   carries two. *)
C11_CanonicalOutput ==
    \A k \in 1..Len(changes) :
        LET c == changes[k]
            Canon(p) == IF Len(p) > 1 /\ p[Len(p)] \in PartSuffixes
                        THEN SubSeq(p, 1, Len(p) - 1) ELSE p
            out == c.destination[1][1]
        IN /\ c.action = "copy_file"
           /\ k <= marks.planned => out = Canon(c.source[1][1])
           /\ \E fo \in tree : IsPartitionName(fo.part) /\ out = Canon(fo.part)
           /\ c.destination[1][2] = <<c.vin>>
           /\ (\E i \in DOMAIN out : out[i] \in PartSuffixes)
              => \E fo \in tree : fo.part = out \o <<fo.part[Len(fo.part)]>>
                                  /\ fo.part[Len(fo.part)] \in PartSuffixes

\* Two partitions with one canonical name were planned: their VIN folders are
\* siblings in one output folder.
C11_Witness ==
    /\ stage = "planned"
    /\ \E j, k \in 1..Len(changes) :
          /\ changes[j].source[1][1] = PPart1
          /\ changes[k].source[1][1] = PPart2
          /\ changes[j].destination[1][1] = PBase
          /\ changes[k].destination[1][1] = PBase
          /\ changes[j].vin # changes[k].vin

\* A flat folder with a keeper by its name and a VIN-named subdirectory, as
\* plan_flat meets it when it is called on such a folder.
NamedWithVinSub ==
    Put(PPart1, Folder3(<<VinA, " ", "toyota">>, {<<VinB>>, <<"docs">>},
                        {fDoc, fRcaInB, fDeepInB, fScanInDocs}))

(* C12: once scan_and_plan has run, every file below a VIN-named direct
   subdirectory V' of a source folder (VIN-named or multi-VIN container) has
   a copy entry to <canonical partition>/V'/<path below V'> with VIN V', and
   no planned destination has a VIN-named folder inside a VIN folder.  The
   same holds of the requests plan_flat makes for a folder with a keeper. *)
C12_NestedVinElevated ==
    LET Elevated(reqs, fo, out_partition) ==
            /\ \A d \in VinSubdirs(fo) : \A f \in Below(fo, d) :
                  \E k \in DOMAIN reqs :
                     /\ reqs[k].source = SrcPath(fo, f)
                     /\ reqs[k].destination =
                           <<<<out_partition, d>> \o SubSeq(f.sub, 2, Len(f.sub)),
                             f.fn[1], f.fn[2]>>
                     /\ reqs[k].vin = d[1]
            /\ \A k \in DOMAIN reqs :
                  LET dir == reqs[k].destination[1]
                  IN Len(dir) >= 3 => ~ (is_vin(dir[2]) /\ is_vin(dir[3]))
    IN /\ stage \notin {"start", "prescanned"} =>
             \A fo \in Partitions(tree) :
                Elevated(changes, fo, merge_partition_name(fo.part))
       /\ Elevated(plan_flat(NamedWithVinSub, PBase, <<>>, FALSE).reqs,
                   NamedWithVinSub, PBase)

\* A VIN-named folder and a multi-VIN container were planned, each with a
\* VIN-named subdirectory: its files are in the subdirectory's own VIN folder.
C12_Witness ==
    /\ stage = "planned"
    /\ \E j, k \in 1..Len(changes) :
          /\ changes[j].source[1] = <<PPart1, <<VinA>>, <<VinB>>, <<"docs">>>>
          /\ changes[j].destination[1] = <<PBase, <<VinB>>, <<"docs">>>>
          /\ changes[j].vin = VinB
          /\ changes[k].source[1] = <<PPart1, <<"cars">>, <<VinB>>>>
          /\ changes[k].destination[1] = <<PBase, <<VinB>>>>
          /\ changes[k].vin = VinB

(* C13: once scan_and_plan has run, of every flat folder (not VIN-named, no
   VIN-named subdirectory, not empty) for which no VIN is found in its file
   names, its PDF contents or its name: if it has files, every file of it has
   a copy entry to <canonical partition>/_NO_VIN/<folder name>/<path in the
   folder> with VIN _NO_VIN and one no-VIN warning is recorded for it; if it
   has no file, one empty-folder warning is recorded for it and no copy of
   it is planned. *)
C13_NoVinFolderPreserved ==
    LET IsFlatNoVin(fo) ==
            /\ IsPartitionName(fo.part)
            /\ ~ is_vin(fo.name)
            /\ VinSubdirs(fo) = {}
            /\ fo.subdirs # {} \/ fo.files # {}
            /\ Keeper(fo, pdf_cache, scan_pdf) = ""
        Warned(kind, name) ==
            Cardinality({i \in DOMAIN warnings :
                            warnings[i] = [kind |-> kind, what |-> name]})
        Alike(fo, hasFiles) ==
            Cardinality({g \in tree : /\ IsFlatNoVin(g)
                                      /\ g.name = fo.name
                                      /\ (g.files # {}) = hasFiles})
    IN stage \notin {"start", "prescanned"} =>
          \A fo \in tree : IsFlatNoVin(fo) =>
             /\ Warned("no_vin", fo.name) = Alike(fo, TRUE)
             /\ Warned("empty", fo.name) = Alike(fo, FALSE)
             /\ \A f \in fo.files : \E k \in 1..Len(changes) :
                   /\ changes[k].source = SrcPath(fo, f)
                   /\ changes[k].destination =
                         <<<<merge_partition_name(fo.part), <<NoVin>>, fo.name>>
                              \o f.sub, f.fn[1], f.fn[2]>>
                   /\ changes[k].vin = NoVin

(* C14: once scan_and_plan has run, of every flat folder whose file names and
   PDF contents yield no VIN and whose name contains VINs: the alphabetically
   first VIN of the name is the keeper, and every file of the folder, those
   in its subdirectories included, has a copy entry into that VIN's folder
   with that VIN. *)
C14_FolderNameKeeper ==
    stage \notin {"start", "prescanned"} =>
       \A fo \in Partitions(tree) :
          LET files == DirectFiles(fo)
              found == UNION {extract_all_vins(f.fn[1]) : f \in files}
                       \cup (IF scan_pdf
                             THEN UNION {extract_vins_from_pdf(pdf_cache, fo, f) :
                                            f \in files}
                             ELSE {})
              named == extract_all_vins(fo.name)
              first == SortVins(named)[1]
          IN (/\ ~ is_vin(fo.name)
              /\ VinSubdirs(fo) = {}
              /\ found = {}
              /\ named # {})
             => \A f \in fo.files : \E k \in 1..Len(changes) :
                   /\ changes[k].source = SrcPath(fo, f)
                   /\ changes[k].destination =
                         <<<<merge_partition_name(fo.part), <<first>>>> \o f.sub,
                           f.fn[1], f.fn[2]>>
                   /\ changes[k].vin = first

(* C15: once the cross-copy pass has run, of every PDF planned before it:
   with more than MAX_CROSS_COPY_VINS content VINs the pass added no entry
   for it and recorded a warning naming it; with at most that many, for every
   content VIN that had a planned entry (and so an output partition) there is
   a copy entry with that source and that VIN.  Every entry the pass added
   copies a PDF into <partition of the VIN>/<VIN>/<file name> for one of its
   content VINs that had a planned entry, and repeats no (source, VIN) pair
   of an earlier entry. *)
C15_CrossCopyPass ==
    stage \in {"crossed", "filled"} =>
       LET planned == 1..marks.planned
           crossed == (marks.planned + 1)..marks.crossed
           content(k) == CacheGet(pdf_cache, changes[k].source)
           Owns(v) == \E i \in planned : changes[i].vin = v
       IN /\ \A k \in planned :
                IF Cardinality(content(k)) > MAX_CROSS_COPY_VINS
                THEN /\ \A j \in crossed : changes[j].source # changes[k].source
                     /\ \E i \in DOMAIN warnings :
                           warnings[i] = [kind |-> "too_many",
                                          what |-> changes[k].source[2]]
                ELSE \A v \in content(k) :
                        Owns(v) => \E j \in 1..marks.crossed :
                                      /\ changes[j].source = changes[k].source
                                      /\ changes[j].vin = v
          /\ \A j \in crossed :
                /\ changes[j].vin \in content(j)
                /\ Owns(changes[j].vin)
                /\ changes[j].destination[1][2] = <<changes[j].vin>>
                /\ Len(changes[j].destination[1]) = 2
                /\ changes[j].destination[2] = changes[j].source[2]
                /\ \E i \in planned :
                      /\ changes[i].vin = changes[j].vin
                      /\ changes[i].destination[1][1] = changes[j].destination[1][1]
                /\ \A i \in 1..(j - 1) :
                      ~ (/\ changes[i].source = changes[j].source
                         /\ changes[i].vin = changes[j].vin)

\* The pass ran on a container with a master document of exactly
\* MAX_CROSS_COPY_VINS content VINs, which was cross-copied, and one with
\* more, which was skipped with a warning.
C15_Witness ==
    /\ stage = "crossed"
    /\ \E j \in (marks.planned + 1)..marks.crossed :
          Cardinality(CacheGet(pdf_cache, changes[j].source)) = MAX_CROSS_COPY_VINS
    /\ \E k \in 1..marks.planned :
          /\ Cardinality(CacheGet(pdf_cache, changes[k].source)) > MAX_CROSS_COPY_VINS
          /\ \E i \in DOMAIN warnings : warnings[i].kind = "too_many"

(* C16: once the gap-fill pass has run, every entry it added copies a PDF p
   into <partition of v>/<v>/<file name> for a VIN v among p's content VINs,
   repeats no (source, VIN) pair of an earlier entry, and p shows, by its
   file name or its content, a critical category that no entry planned for v
   before it shows (so no second copy is added for a category already
   filled).  The limit of MAX_CROSS_COPY_VINS does not apply: after the pass
   every PDF of the ledger that names a VIN with planned entries shows no
   critical category that the VIN still lacks. *)
C16_GapFillPass ==
    stage = "filled" =>
       LET Present(n, v) == VinCategories(SubSeq(changes, 1, n), pdf_content_cats, v)
           Shows(src) == PdfCats(pdf_content_cats, src)
       IN /\ \A k \in (marks.crossed + 1)..Len(changes) :
                LET c == changes[k]
                IN /\ c.action = "copy_file"
                   /\ c.vin \in CacheGet(pdf_cache, c.source)
                   /\ \A i \in 1..(k - 1) :
                         ~ (changes[i].source = c.source /\ changes[i].vin = c.vin)
                   /\ (Shows(c.source) \cap _CRITICAL_CATEGORIES)
                         \ Present(k - 1, c.vin) # {}
                   /\ c.destination[1][2] = <<c.vin>>
                   /\ Len(c.destination[1]) = 2
                   /\ c.destination[2] = c.source[2]
                   /\ \E i \in 1..marks.crossed :
                         /\ changes[i].vin = c.vin
                         /\ changes[i].destination[1][1] = c.destination[1][1]
          /\ \A i, k \in 1..Len(changes) :
                changes[i].vin \in CacheGet(pdf_cache, changes[k].source)
                => Shows(changes[k].source) \subseteq
                      Present(Len(changes), changes[i].vin)

\* The pass filled a gap of a VIN from a master document with more content
\* VINs than MAX_CROSS_COPY_VINS, and passed over a second such document
\* showing the same category.
C16_Witness ==
    /\ stage = "filled"
    /\ \E k \in (marks.crossed + 1)..Len(changes) :
          /\ Cardinality(CacheGet(pdf_cache, changes[k].source)) > MAX_CROSS_COPY_VINS
          /\ \E j \in 1..marks.crossed :
                /\ changes[j].source # changes[k].source
                /\ changes[k].vin \in CacheGet(pdf_cache, changes[j].source)
                /\ PdfCats(pdf_content_cats, changes[j].source)
                     = PdfCats(pdf_content_cats, changes[k].source)
                /\ \A i \in 1..Len(changes) :
                      ~ (/\ changes[i].source = changes[j].source
                         /\ changes[i].vin = changes[k].vin)

----------------------------------------------------------------------------
(* Claims on content reclassification and the OCR cache, under SpecScan *)

\* The categories of the content patterns, in lexical order of their names.
ContentCatsLexical ==
    <<"CASCO", "Contract Cadru", "Facturi", "RCA", "Subcontract", TalonCiv>>

\* The category whose earliest match in the text has the lowest character
\* offset, the lexically first one among equals; "" when nothing matches.
FirstPositionCategory(text) ==
    LET matching == {k \in DOMAIN ContentCatsLexical :
                        ContentMatches(ContentCatsLexical[k], text) # {}}
        first(k) == Min(ContentMatches(ContentCatsLexical[k], text))
        best == {k \in matching : \A d \in matching : first(k) <= first(d)}
    IN IF matching = {} THEN "" ELSE ContentCatsLexical[Min(best)]

\* C17: when the text of a PDF matches keywords of several content
\* categories, a scan of the text (no cached result is used) selects the
\* category whose earliest match has the lowest character offset, whatever
\* the fixed priority list says; equal offsets are decided by the lexical
\* order of the category names; a text without match has no category.
C17_FirstPositionWins ==
    (last_call.fn = "_scan_pdf_for_category" /\ last_call.arg = <<FALSE>>)
        => last_call.result = FirstPositionCategory(pdf_file.text)

\* C20: when the OCR cache reports a hit for the file (its fingerprint is
\* the one of the entry), the VIN set and the category set of the hit are
\* those a scan of the file yields, whatever stores were made for the path
\* before (results of a scan, or a reclass_cat only).
C20_CacheHitEqualsColdScan ==
    (last_call.fn = "_scan_single_pdf" /\ last_call.result.hit)
        => /\ last_call.result.vins = ColdScan(pdf_file.text).vins
           /\ last_call.result.cats = ColdScan(pdf_file.text).cats

----------------------------------------------------------------------------
(* Claims on categorize_file, under SpecCategorize *)

\* The priority order of the categories as specified.
SpecifiedOrder ==
    <<"Facturi", TalonCiv, "Contract Cadru", "Subcontract", "CASCO", "RCA",
      "Cesiune / Supliment", "OP Plati", "Formular de Livrare (FL)">>

\* The name is a short name of the rename pass, numbered or not.
IsShortName(fn) == \E b \in DOMAIN _SHORT_NAME_TO_CAT : fn[1] = b

\* C18 as stated: the result is one category of the closed set ("" stands
\* for the ignored desktop.ini and Thumbs.db); a name matching the patterns
\* of several categories gets the one earliest in the order Facturi,
\* TALON / CIV, Contract Cadru, Subcontract, CASCO, RCA, Cesiune / Supliment,
\* OP Plati, Formular de Livrare (FL); a name matching none is Alte Documente.
C18_SpecifiedPriority ==
    last_call.fn = "categorize_file" =>
        LET fn == last_call.arg
            hits == {k \in DOMAIN SpecifiedOrder : PatternMatch(SpecifiedOrder[k], fn)}
        IN last_call.result =
              IF fn \in _IGNORE_FILES THEN ""
              ELSE IF IsShortName(fn) THEN _SHORT_NAME_TO_CAT[fn[1]]
              ELSE IF hits = {} THEN "Alte Documente"
              ELSE SpecifiedOrder[Min(hits)]

----------------------------------------------------------------------------
(* Claim on the short names, under SpecRename *)

\* The short names and their categories, as the rename pass gives them.
ShortNamePairs ==
    { <<<<"cc">>, "Contract Cadru">>, <<<<"subct">>, "Subcontract">>,
      <<<<"ces">>, "Cesiune / Supliment">>,
      <<<<"fl">>, "Formular de Livrare (FL)">>,
      <<<<"casco">>, "CASCO">>, <<<<"rca">>, "RCA">>, <<<<"op">>, "OP Plati">>,
      <<<<"fact">>, "Facturi">>,
      <<<<"talon">>, TalonCiv>>, <<<<"civ">>, TalonCiv>>,
      <<<<"talon", "_", "civ">>, TalonCiv>>,
      <<<<"talon", "+", "civ">>, TalonCiv>> }

\* C19: for every category with a short name B, categorize_file maps B.pdf
\* and B_N.pdf (N >= 1) back to the category (talon, civ, talon_civ and
\* TALON+CIV to TALON / CIV); so every entry the rename pass renamed has,
\* under its new name and under that name with any _N suffix the executor
\* may give it on a collision, the category of its original name, under
\* which it was grouped.
C19_ShortNamesKeepCategory ==
    /\ \A q \in ShortNamePairs : \A n \in 0..(MaxDocs + 1) :
          categorize_file(<<q[1], n>>) = q[2]
    /\ phase = "renamed" =>
          \A key \in DOMAIN original_names : \A n \in 0..(MaxDocs + 1) :
             /\ categorize_file(key[2]) = categorize_file(original_names[key])
             /\ categorize_file(<<key[2][1], n>>) = categorize_file(original_names[key])

\* A CASCO document named "polita casco" has been renamed casco_N.
C19_Witness ==
    /\ phase = "renamed"
    /\ \E key \in DOMAIN original_names :
          /\ key[2][1] = <<"casco">>
          /\ key[2][2] >= 1
          /\ original_names[key] = <<<<"polita", " ", "casco">>, 0>>
          /\ categorize_file(key[2]) = "CASCO"

----------------------------------------------------------------------------
(* Claims on the validity of OCR cache entries, under SpecScan *)

\* A step of _scan_single_pdf with OCR, held against the validity rule.
C21_Step ==
    (last_call'.fn = "_scan_single_pdf" /\ last_call' # last_call) =>
        LET valid == /\ ocr_disk_cache # NoEntry
                     /\ ocr_disk_cache[1].ocr_used
                     /\ ocr_disk_cache[1].fp = pdf_file.fp
        IN /\ last_call'.result.hit <=> valid
           /\ ~ valid =>
                 /\ last_call'.result.vins = ColdScan(pdf_file.text).vins
                 /\ last_call'.result.cats = ColdScan(pdf_file.text).cats
                 /\ ocr_disk_cache' # NoEntry
                 /\ ocr_disk_cache'[1].fp = pdf_file.fp

\* C21: a lookup in the persistent OCR cache is a hit only if the path has
\* an entry with ocr_used set whose stored fingerprint (size, mtime) is the
\* current one of the file; an entry whose fingerprint differs from the
\* file's is a miss, and the file is scanned again.
C21_HitOnlyIfValid == [][C21_Step]_vars

\* The file was replaced after a store: the scan that followed was a miss
\* although the path had an entry.
C21_Witness ==
    /\ last_call.fn = "_scan_single_pdf"
    /\ ~ last_call.result.hit
    /\ pdf_file.fp >= 1
    /\ ocr_disk_cache # NoEntry
    /\ ocr_disk_cache[1].has_reclass

----------------------------------------------------------------------------
(* Claim on the rename map, under SpecMap *)

\* The later map over the earlier one.
MergeMaps(old, new) ==
    [k \in DOMAIN old \cup DOMAIN new |->
        IF k \in DOMAIN new THEN new[k] ELSE old[k]]

RECURSIVE MergeAll(_)
MergeAll(maps) ==
    IF maps = <<>> THEN <<>>
    ELSE MergeMaps(MergeAll(SubSeq(maps, 1, Len(maps) - 1)), maps[Len(maps)])

\* C22: after any sequence of saves on one output root, load_rename_map
\* returns the union of the saved maps, the most recently saved value for a
\* key saved more than once; no key saved earlier is lost; on a fresh output
\* root a load after one save returns the saved map.
C22_LoadReturnsMerge ==
    last_call.fn = "load_rename_map" =>
        /\ last_call.result = MergeAll(saved_maps)
        /\ \A i \in DOMAIN saved_maps : \A k \in DOMAIN saved_maps[i] :
              /\ k \in DOMAIN last_call.result
              /\ (\A j \in (i + 1)..Len(saved_maps) : k \notin DOMAIN saved_maps[j])
                    => last_call.result[k] = saved_maps[i][k]
        /\ Len(saved_maps) = 1 => last_call.result = saved_maps[1]

\* Two maps were saved, the second with another value for a key of the first
\* and without another of its keys; the map was loaded.
C22_Witness ==
    /\ last_call.fn = "load_rename_map"
    /\ Len(saved_maps) = 2
    /\ \E k \in DOMAIN saved_maps[1] \cap DOMAIN saved_maps[2] :
          /\ saved_maps[1][k] # saved_maps[2][k]
          /\ last_call.result[k] = saved_maps[2][k]
    /\ \E k \in DOMAIN saved_maps[1] \ DOMAIN saved_maps[2] :
          last_call.result[k] = saved_maps[1][k]

----------------------------------------------------------------------------
(* Claims on the PDF pre-scan, under FairPrescan and SpecPrescan *)

\* C23: bulk_prescan_pdfs always terminates (no process dying): a PDF whose
\* scan exceeds the per-PDF timeout, or never returns, is recorded with
\* empty VIN and category sets and counted as failed, once, and the other
\* PDFs are processed all the same.
C23_PrescanTerminates ==
    /\ <>(prescan.pc = "done" \/ \E p \in Pdfs : prescan.nature[p] = "kill")
    /\ [](prescan.pc = "done" =>
            /\ \A p \in Pdfs :
                  /\ prescan.calls[p] = 1
                  /\ prescan.nature[p] \in {"slow", "hang"} => prescan.cache[p] = "empty"
                  /\ prescan.nature[p] = "ok" => prescan.cache[p] = "sets"
            /\ prescan.failed >=
                  Cardinality({p \in Pdfs : prescan.nature[p] \in {"slow", "hang"}}))

\* C24: if the process pool dies during the pre-scan, the run is not
\* aborted: every PDF without result at that time is scanned in the parent
\* process, so that in the end each enumerated PDF has its entry in the
\* cache (the sets of its text when its scan returns them) and has been
\* counted exactly once, as scanned or as failed.
C24_PoolDeathFallsBack ==
    (/\ prescan.pc = "done"
     /\ \E p \in Pdfs : prescan.fut[p] = "broken" \/ prescan.submit_fails)
        => /\ \A p \in Pdfs :
                 /\ prescan.cache[p] # "none"
                 /\ prescan.calls[p] = 1
                 /\ prescan.nature[p] \in {"ok", "slow"} => prescan.cache[p] = "sets"
           /\ prescan.scanned + prescan.failed = MaxPdfs

----------------------------------------------------------------------------
(* Claims on Ledger.execute, under Spec *)

\* C25: in dry-run mode Ledger.execute creates no file and no directory,
\* opens no log file and leaves every entry planned, whatever the worker
\* count, while it visits every entry of the ledger exactly once: the
\* progress bar has advanced once for each entry passed, and for all of them
\* at the end.
C25_DryRunNoEffect ==
    (dry_run /\ phase \in {"exec", "done"}) =>
        /\ DOMAIN fs \subseteq SrcFiles
        /\ \A p \in DOMAIN fs : fs[p] = SrcContent(p)
        /\ dirs = {SrcDir}
        /\ ~ jsonl
        /\ log = <<>>
        /\ changes = plan0
        /\ \A k \in 1..Len(changes) : changes[k].status = "planned"
        /\ bar = next_i - 1
        /\ phase = "done" => bar = Len(changes)

\* A dry run with two workers has ended on a ledger of two copies, which
\* make one batch.
C25_Witness ==
    /\ dry_run /\ phase = "done" /\ workers = 2
    /\ Len(changes) = 2
    /\ bar = 2
    /\ \A k \in 1..2 : changes[k].action = "copy_file"

----------------------------------------------------------------------------
(* Claim on _get_partition_dirs, under SpecPartitions *)

\* C26: _get_partition_dirs returns exactly the directories directly under
\* the root whose name starts, whatever the case, with SINDICALIZARE or
\* SINICALIZARE, in lexicographic order, restricted to the positions
\* range_start..range_end of that list (counted from 1, both included, 0 for
\* no bound); the result depends on the tree and the range alone.
C26_PartitionDirs ==
    last_call.fn = "_get_partition_dirs" =>
        LET listing == last_call.arg.listing
            rs == last_call.arg.range_start
            re == last_call.arg.range_end
            Q == {d \in DOMAIN listing :
                     /\ listing[d]
                     /\ \E pre \in {SINDICALIZARE, SINICALIZARE} :
                           /\ Len(d) >= Len(pre)
                           /\ \A i \in 1..Len(pre) :
                                 d[i] = pre[i] \/ UpperChar(d[i]) = pre[i]}
            pos(d) == 1 + Cardinality({e \in Q : CharLess(e, d)})
            lo == IF rs = 0 THEN 1 ELSE rs
            hi == IF re = 0 THEN Cardinality(Q) ELSE re
            wanted == {d \in Q : lo <= pos(d) /\ pos(d) <= hi}
            r == last_call.result
        IN /\ {r[k] : k \in DOMAIN r} = wanted
           /\ Len(r) = Cardinality(wanted)
           /\ \A j, k \in DOMAIN r : j < k => CharLess(r[j], r[k])

\* Three partition directories, one in lower case, beside a file and other
\* directories; positions 2..3 were asked for.
C26_Witness ==
    /\ last_call.fn = "_get_partition_dirs"
    /\ DOMAIN last_call.arg.listing = RootNames
    /\ \A d \in RootNames : last_call.arg.listing[d]
    /\ last_call.arg.range_start = 2
    /\ last_call.arg.range_end = 3
    /\ Len(last_call.result) = 2
    /\ last_call.result[1] = SINICALIZARE \o <<" ", "B">>

----------------------------------------------------------------------------
(* Claim on reclassify_by_content, under SpecReclass *)

\* The number of files an inventory entry lists.
RECURSIVE ListedIn(_, _)
ListedIn(files, cats) ==
    IF cats = {} THEN 0
    ELSE LET c == CHOOSE x \in cats : TRUE
         IN  Len(files[c]) + ListedIn(files, cats \ {c})

\* The files of Alte Documente of a VIN that the call has moved out so far.
MovedOut(vin) ==
    {rel \in Range(reclass.inventory0[vin][AlteDocumente]) :
        rel \notin Range(inventory[vin][AlteDocumente])}

\* The critical categories a VIN misses when the call starts.
Missing0(vin) == {c \in critical : reclass.inventory0[vin][c] = <<>>}

(* C27: at every point of reclassify_by_content, for every VIN: every file
   moved out of Alte Documente is a PDF whose detected category is one of the
   critical categories the VIN misses when the call starts; each critical
   category has grown by exactly the files detected as it that left Alte
   Documente, and Alte Documente is its former list without the moved files;
   a VIN that misses no critical category has no scan task and its entry is
   unchanged; a file for which no category is detected is still in Alte
   Documente; the number of files listed for the VIN is unchanged. *)
C27_ReclassifyMovesIntoGaps ==
    \A vin \in InvVins :
       LET before == reclass.inventory0[vin]
           now == inventory[vin]
       IN  /\ \A rel \in MovedOut(vin) :
                 /\ IsPdfRel(rel)
                 /\ reclass.detect[rel] \in Missing0(vin)
           /\ \A c \in critical :
                 Len(now[c]) = Len(before[c])
                     + Cardinality({rel \in MovedOut(vin) : reclass.detect[rel] = c})
           /\ now[AlteDocumente]
                 = SelectSeq(before[AlteDocumente],
                             LAMBDA rel : rel \notin MovedOut(vin))
           /\ Missing0(vin) = {}
                 => /\ now = before
                    /\ \A t \in DOMAIN reclass.scan_tasks :
                          reclass.scan_tasks[t].vin # vin
           /\ \A rel \in Range(before[AlteDocumente]) :
                 reclass.detect[rel] = NoCat => rel \in Range(now[AlteDocumente])
           /\ ListedIn(now, InvCats) = ListedIn(before, InvCats)

\* The call has returned: a VIN that missed CASCO listed two PDFs, one
\* detected as CASCO and moved there, one with no category detected and
\* left; the other VIN missed nothing and its PDF was not scanned.
C27_Witness ==
    /\ reclass.pc = "done"
    /\ reclass.reclassified = 1
    /\ \E vin \in InvVins, other \in InvVins :
          /\ "CASCO" \in Missing0(vin)
          /\ Len(reclass.inventory0[vin][AlteDocumente]) = 2
          /\ Len(inventory[vin]["CASCO"]) = 1
          /\ \E rel \in Range(inventory[vin][AlteDocumente]) :
                IsPdfRel(rel) /\ reclass.detect[rel] = NoCat
          /\ Missing0(other) = {}
          /\ \E rel \in Range(inventory[other][AlteDocumente]) : IsPdfRel(rel)

----------------------------------------------------------------------------
(* Claim on rescan_rescue_no_vin, under SpecRescue *)

\* The VINs found in the PDFs of the folder, and the VINs discovered for it:
\* those of the PDFs, or, if none, those of the folder name.
PdfVins == UNION {no_vin.scans[n].vins : n \in DOMAIN no_vin.folder0}

Discovered == IF PdfVins # {} THEN PdfVins ELSE no_vin.name_vins

\* The directory holds a file of this content.
HoldsContent(dir, c) == \E n \in DOMAIN dir : dir[n] = c

(* C28 as the specification states it: once the rescue has returned, a
   folder for which no VIN is found in its PDFs or in its name is unchanged,
   and so are the VIN folders; otherwise no file is left in the folder, the
   content of each of its files is in the folder of the first discovered VIN
   in string order and in the folder of every other discovered VIN, and the
   folder and the emptied _NO_VIN are removed. *)
C28_RescueMovesAndCopies ==
    no_vin.pc = "done" =>
       IF Discovered = {}
       THEN /\ no_vin.folder = no_vin.folder0
            /\ no_vin.out = no_vin.out0
            /\ no_vin.folder_exists
       ELSE /\ DOMAIN no_vin.folder = {}
            /\ \A n \in DOMAIN no_vin.folder0 : \A v \in Discovered :
                  HoldsContent(no_vin.out[v], no_vin.folder0[n])
            /\ ~no_vin.folder_exists
            /\ ~no_vin.no_vin_exists

----------------------------------------------------------------------------
(* Claims on the order and the frame of Ledger.execute, under Spec *)

\* Entry j has been handed to _exec_copy or executed.
Started(j) == changes[j].status # "planned" \/ \E t \in Threads : cur[t] = j

\* Entry j has been executed and its task has returned.
Finished(j) == changes[j].status # "planned" /\ \A t \in Threads : cur[t] # j

(* C29: during an execution, for any worker count, of a create_folder entry
   k and a copy entry j: when j precedes k and k has been executed, j has
   finished; when j follows k and j has started, k has been completed. *)
C29_FoldersBetweenBatches ==
    (phase \in {"exec", "done", "aborted"} /\ ~ dry_run) =>
        \A k \in 1..Len(changes), j \in 1..Len(changes) :
           (changes[k].action = "create_folder" /\ changes[j].action = "copy_file")
              => /\ (j < k /\ changes[k].status # "planned") => Finished(j)
                 /\ (k < j /\ Started(j)) => changes[k].status = "done"

\* With two workers, a copy is running in the pool after the create_folder
\* entry before it has been completed.
C29_Witness ==
    /\ phase = "exec" /\ ~ dry_run /\ workers = 2
    /\ Len(changes) = 2
    /\ changes[1].action = "create_folder" /\ changes[1].status = "done"
    /\ changes[2].action = "copy_file"
    /\ \E t \in Threads : cur[t] = 2 /\ pc[t] = "write"

(* C30 as the specification states it: during and after Ledger.execute the
   source and the destination of every entry are those of the ledger
   execute was called on, and no entry is in the hands of two workers: only
   the status of an entry changes, written by the one worker the entry was
   handed to. *)
C30_OnlyStatusChanges ==
    phase \in {"exec", "done", "aborted"} =>
        /\ Len(changes) = Len(plan0)
        /\ \A k \in 1..Len(changes) :
              /\ changes[k].source = plan0[k].source
              /\ changes[k].destination = plan0[k].destination
              /\ changes[k].action = plan0[k].action
        /\ \A t, u \in Threads :
              (t # u /\ cur[t] # 0) => cur[t] # cur[u]

----------------------------------------------------------------------------
(* Claims on plan_multi_car and plan_flat, under SpecPlan *)

\* The pool a loose file of a folder falls in: 1 for an FL name, 2 for a
\* seriec name, 3 for a VIN prefix, 0 for none; and the VIN it adds to it.
PoolOf(f) ==
    IF FLGroup(f.fn) # "" THEN 1
    ELSE IF SeriecGroup(f.fn) # "" THEN 2
    ELSE IF PrefixGroup(f.fn) # "" THEN 3 ELSE 0

PoolVin(f) ==
    CASE PoolOf(f) = 1 -> FLGroup(f.fn)
      [] PoolOf(f) = 2 -> SeriecGroup(f.fn)
      [] PoolOf(f) = 3 -> PrefixGroup(f.fn)
      [] OTHER -> ""

\* The most frequent VINs of the first non-empty pool of a folder; empty
\* when every pool is empty.
PoolModes(fo) ==
    LET loose == {f \in fo.files : f.sub = <<>>}
        filled == {PoolOf(f) : f \in loose} \ {0}
        pool == {f \in loose : PoolOf(f) = Min(filled)}
        count(v) == Cardinality({f \in pool : PoolVin(f) = v})
    IN IF filled = {} THEN {}
       ELSE {PoolVin(f) : f \in {g \in pool :
                \A h \in pool : count(PoolVin(h)) <= count(PoolVin(g))}}

\* The first of a set of VINs in string order.
FirstVin(S) == CHOOSE v \in S : \A w \in S : TokRank(v) <= TokRank(w)

\* A multi-VIN container: not VIN-named, with a VIN-named subdirectory.
IsMultiCar(fo) ==
    IsPartitionName(fo.part) /\ ~ is_vin(fo.name)
    /\ \E d \in fo.subdirs : is_vin(d)

\* The entries scan_and_plan made for a source.
PlannedFor(src) == {k \in 1..marks.planned : changes[k].source = src}

(* C31: once scan_and_plan has run, for every multi-VIN container there is
   a parent VIN, a most frequent VIN of the first non-empty pool among the
   FL, seriec and VIN-prefix names of its loose files, or the first
   VIN-named subdirectory in string order when every pool is empty, such
   that every file of the container has exactly one entry: a loose file or
   a file of a subdirectory that is not VIN-named into the parent VIN's
   folder, at its path in the container, with the parent VIN; a file of a
   VIN-named subdirectory into the folder of that VIN, with that VIN. *)
C31_MultiCarParent ==
    stage \notin {"start", "prescanned"} =>
       \A fo \in tree : IsMultiCar(fo) =>
          LET out == merge_partition_name(fo.part)
              candidates ==
                  IF PoolModes(fo) # {} THEN PoolModes(fo)
                  ELSE {FirstVin({d[1] : d \in {e \in fo.subdirs : is_vin(e)}})}
          IN \E parent \in candidates :
                \A f \in fo.files :
                   /\ Cardinality(PlannedFor(SrcPath(fo, f))) = 1
                   /\ \A k \in PlannedFor(SrcPath(fo, f)) :
                         IF f.sub # <<>> /\ is_vin(f.sub[1])
                         THEN /\ changes[k].destination =
                                    <<<<out, f.sub[1]>> \o Tail(f.sub),
                                      f.fn[1], f.fn[2]>>
                              /\ changes[k].vin = f.sub[1][1]
                         ELSE /\ changes[k].destination =
                                    <<<<out, <<parent>>>> \o f.sub,
                                      f.fn[1], f.fn[2]>>
                              /\ changes[k].vin = parent

\* A container with two FL names of VinA and one of VinB has been planned
\* in a process whose sets yield VinB first: the FL file of VinB went to
\* VinA, the file of the subdirectory VinB to VinB.
C31_Witness ==
    /\ stage = "planned"
    /\ set_first = VinB
    /\ Put(PPart2, MultiCarMode) \in tree
    /\ \E k \in 1..marks.planned :
          /\ changes[k].source = SrcPath(Put(PPart2, MultiCarMode), fFlB)
          /\ changes[k].vin = VinA
    /\ \E k \in 1..marks.planned :
          /\ changes[k].source = SrcPath(Put(PPart2, MultiCarMode), fRcaInB)
          /\ changes[k].vin = VinB

\* A flat folder: not VIN-named, no VIN-named subdirectory.
IsFlat(fo) ==
    IsPartitionName(fo.part) /\ ~ is_vin(fo.name)
    /\ \A d \in fo.subdirs : ~ is_vin(d)

\* The loose files of a folder, the VINs of their names, and the number of
\* names a VIN occurs in.
Loose(fo) == {f \in fo.files : f.sub = <<>>}

NameVins(fo) == UNION {extract_all_vins(f.fn[1]) : f \in Loose(fo)}

NameCount(fo, v) == Cardinality({f \in Loose(fo) : v \in extract_all_vins(f.fn[1])})

\* The VINs that occur in the largest number of names of the folder.
MostNamed(fo) ==
    {v \in NameVins(fo) : \A w \in NameVins(fo) : NameCount(fo, w) <= NameCount(fo, v)}

(* C32 as the specification states it: once scan_and_plan has run, in every
   flat folder whose file names carry VINs and whose FL, seriec and prefix
   pools are empty, the keeper is the first in string order of the VINs
   that occur in the largest number of file names: every file of the folder
   whose name carries no VIN, and every file of its subdirectories, is
   planned into that VIN's folder with that VIN. *)
C32_KeeperByCount ==
    stage \notin {"start", "prescanned"} =>
       \A fo \in tree :
          (IsFlat(fo) /\ NameVins(fo) # {} /\ PoolModes(fo) = {}) =>
             LET K == FirstVin(MostNamed(fo))
                 out == merge_partition_name(fo.part)
             IN \A f \in fo.files :
                   (f.sub # <<>> \/ extract_all_vins(f.fn[1]) = {}) =>
                      \A k \in PlannedFor(SrcPath(fo, f)) :
                         /\ changes[k].vin = K
                         /\ changes[k].destination =
                               <<<<out, <<K>>>> \o f.sub, f.fn[1], f.fn[2]>>

\* The VINs into whose folders a loose file of a flat folder with keeper K
\* is to be planned.
Recipients(f, K) ==
    LET named == extract_all_vins(f.fn[1])
    IN IF named = {} THEN {K} ELSE named

(* C33: once scan_and_plan has run, of every loose file f of a flat folder
   with keeper K: if the name of f carries VINs and K is not among them, f
   is planned into the folder of every VIN of its name and not into the
   folder of K; if K is among them, into the folder of K and of every other
   VIN of the name; if the name carries no VIN, into the folder of K only.
   f has exactly one entry per recipient VIN, with that VIN, and no other
   entry. *)
C33_FlatCrossCopies ==
    stage \notin {"start", "prescanned"} =>
       \A fo \in tree :
          LET K == Keeper(fo, pdf_cache, scan_pdf)
              out == merge_partition_name(fo.part)
          IN (IsFlat(fo) /\ K # "") =>
                \A f \in Loose(fo) :
                   LET mine == PlannedFor(SrcPath(fo, f))
                   IN /\ \A v \in Recipients(f, K) :
                            Cardinality({k \in mine :
                               /\ changes[k].vin = v
                               /\ changes[k].destination[1] = <<out, <<v>>>>
                               /\ changes[k].destination[2] = f.fn[1]}) = 1
                      /\ \A k \in mine :
                            /\ changes[k].vin \in Recipients(f, K)
                            /\ changes[k].destination[1] = <<out, <<changes[k].vin>>>>
                            /\ changes[k].action = "copy_file"

\* A flat folder was planned that holds a file naming only another VIN than
\* the keeper, a file naming the keeper and another VIN, and a file naming
\* no VIN.
C33_Witness ==
    /\ stage \notin {"start", "prescanned"}
    /\ \E fo \in tree :
          LET K == Keeper(fo, pdf_cache, scan_pdf)
          IN /\ IsFlat(fo) /\ K # ""
             /\ \E f, g, h \in Loose(fo) :
                   /\ extract_all_vins(f.fn[1]) # {}
                   /\ K \notin extract_all_vins(f.fn[1])
                   /\ K \in extract_all_vins(g.fn[1])
                   /\ extract_all_vins(g.fn[1]) # {K}
                   /\ extract_all_vins(h.fn[1]) = {}
                   /\ \A x \in {f, g, h} : PlannedFor(SrcPath(fo, x)) # {}

----------------------------------------------------------------------------
(* Claims on repeated planning, under SpecReplan *)

(* C34 as the specification states it: for an unchanged source tree and an
   unchanged PDF cache, the second planning run leaves the ledger of the
   first as it is: the same entries in the same order, with the same
   sources, destinations and VINs. *)
C34_SamePlanTwice == [][stage' = "replanned" => changes' = changes]_vars

----------------------------------------------------------------------------
(* Completeness of the plan, under SpecPlan *)

(* C38 as the specification states it: once scan_and_plan has run, every
   file at any depth of a folder of a selected partition is the source of at
   least one planned copy_file entry, whatever the shape of the folder. *)
C38_EveryFilePlanned ==
    stage \notin {"start", "prescanned"} =>
       \A fo \in Partitions(tree) : \A f \in fo.files :
          \E k \in PlannedFor(SrcPath(fo, f)) : changes[k].action = "copy_file"

----------------------------------------------------------------------------
(* Claims on the rename pass and the index of planned destinations, under
   SpecRename *)

\* The destination -> source pairs of the copy entries of the ledger.
CopyPairs ==
    {<<changes[i].destination, changes[i].source>> :
        i \in {k \in 1..Len(changes) : changes[k].action = "copy_file"}}

(* C35 as the specification states it: after the rename pass, whether or not
   it dropped an entry, the index of planned destinations holds exactly the
   destination -> source pairs of the copy entries of the ledger: its keys
   are their destinations and each key maps to the source of an entry with
   that destination. *)
C35_IndexFollowsRenames ==
    phase = "renamed" =>
       /\ DOMAIN planned_dests = {p[1] : p \in CopyPairs}
       /\ \A d \in DOMAIN planned_dests : <<d, planned_dests[d]>> \in CopyPairs

----------------------------------------------------------------------------
(* Claims on the rename pass over a planned tree, under SpecPlanRename *)

\* The directory a planned copy goes to.
OutDir(c) == Parent(c.destination)

(* C39 as the specification states it: the rename pass drops a copy entry
   only if an entry that survives the pass is planned into the same output
   directory with the same content.  (An entry survives when the ledger
   after the pass holds its source with its output directory; the pass
   changes file names only.) *)
C39_DropOnlyWithinDirectory ==
    [][(phase = "plan" /\ phase' = "renamed") =>
         \A i \in 1..Len(changes) :
            (~ \E k \in 1..Len(changes') :
                  /\ changes'[k].source = changes[i].source
                  /\ OutDir(changes'[k]) = OutDir(changes[i]))
            => \E k \in 1..Len(changes') :
                  /\ OutDir(changes'[k]) = OutDir(changes[i])
                  /\ TreeBytes(tree)[changes'[k].source]
                        = TreeBytes(tree)[changes[i].source]]_vars

----------------------------------------------------------------------------
(* Claims on the fields of an OCR cache entry, under SpecScan *)

(* C40 as the specification states it: what a hit of the OCR cache returns
   was computed from the version of the file at hand.  A reclassification
   with OCR returns the category of the text of the file, whether it comes
   from the entry or from a scan; and a VIN set or category set returned by
   a hit that was stored by a scan (it is not empty) is the set a scan of
   the file yields. *)
C40_FieldsOfThisVersion ==
    /\ (last_call.fn = "_scan_pdf_for_category" /\ last_call.arg = <<TRUE>>)
          => last_call.result = ContentCategory(pdf_file.text)
    /\ (/\ last_call.fn = "_scan_single_pdf"
        /\ last_call.result.hit
        /\ last_call.result.vins \cup last_call.result.cats # {})
          => /\ last_call.result.vins = ColdScan(pdf_file.text).vins
             /\ last_call.result.cats = ColdScan(pdf_file.text).cats

----------------------------------------------------------------------------
(* Claims on the renaming of reclassified files, under SpecRenameOnDisk *)

(* C36: without rename_on_disk no step of the reclassifier changes a file on
   disk.  With rename_on_disk, when a result moves a listed file that is on
   disk into a category with a short name, the file leaves its old name and
   its bytes lie under <short>.pdf or <short>_N.pdf in the directory it was
   in, a numbered name only when <short>.pdf held other bytes; no other
   file is changed, removed or overwritten, and every content the VIN
   folder held is still in it. *)
C36_RenameOnDisk ==
    [][/\ ~ reclass.rename_on_disk => pdf_file' = pdf_file
       /\ reclass'.applied = reclass.applied + 1 =>
             LET r == reclass.results[reclass.applied + 1]
                 old == <<r.vin, RelDir(r.rel), <<r.rel[1], r.rel[2], r.rel[3]>>>>
                 short == ShortOf(r.cat)
                 plain == <<old[1], old[2], <<short, 0, "pdf">>>>
             IN /\ inventory' = inventory => pdf_file' = pdf_file
                /\ (/\ inventory' # inventory
                    /\ reclass.rename_on_disk
                    /\ short # ""
                    /\ old \in DOMAIN pdf_file)
                      => \E c \in 0..(Cardinality(DOMAIN pdf_file) + 1) :
                            LET new == <<old[1], old[2], <<short, c, "pdf">>>>
                            IN /\ new \in DOMAIN pdf_file'
                               /\ pdf_file'[new] = pdf_file[old]
                               /\ old \notin DOMAIN pdf_file'
                               /\ DOMAIN pdf_file' = (DOMAIN pdf_file \ {old}) \cup {new}
                               /\ c > 0 => /\ plain \in DOMAIN pdf_file
                                           /\ pdf_file[plain] # pdf_file[old]
                                           /\ new \notin DOMAIN pdf_file
                /\ \A p \in DOMAIN pdf_file \ {old} :
                      p \in DOMAIN pdf_file' /\ pdf_file'[p] = pdf_file[p]
                /\ \A p \in DOMAIN pdf_file :
                      \E q \in DOMAIN pdf_file' :
                         q[1] = p[1] /\ pdf_file'[q] = pdf_file[p]]_vars

\* A file of a subdirectory was renamed inside it, and a file was given a
\* numbered name beside a casco.pdf of other bytes.
C36_Witness ==
    /\ reclass.rename_on_disk
    /\ reclass.reclassified = 2
    /\ <<VinA, "docs", <<"casco", 0, "pdf">>>> \in DOMAIN pdf_file
    /\ <<VinA, "", <<"casco", 2, "pdf">>>> \in DOMAIN pdf_file
    /\ <<VinA, "", <<"casco", 0, "pdf">>>> \in DOMAIN pdf_file
    /\ pdf_file[<<VinA, "", <<"casco", 0, "pdf">>>>]
          # pdf_file[<<VinA, "", <<"casco", 2, "pdf">>>>]

----------------------------------------------------------------------------
(* Claims on rescan_apply_renames, under SpecRescan *)

\* The files of a category in a VIN folder of a disk
FilesOfCategory(disk, vin, cat) ==
    {p \in DOMAIN disk : p[1] = vin /\ categorize_file(p[3]) = cat}

(* C37 as the specification states it: after an invocation of
   rescan_apply_renames, in every VIN folder and for every category with a
   short name, each content the files of the category had is held by exactly
   one file of the category (identical files are reduced to one, distinct
   ones all survive), every file of the category carries the short name,
   plain or numbered; and an invocation after the first changes no file. *)
C37_RescanRenames ==
    [][(last_call'.fn = "rescan_apply_renames" /\ last_call' # last_call) =>
         /\ \A vin \in {p[1] : p \in DOMAIN pdf_file} \ {NoVin} :
            \A k \in {i \in 1..Len(_CAT_SHORT_NAMES) : _CAT_SHORT_NAMES[i][2] # ""} :
               LET cat == _CAT_SHORT_NAMES[k][1]
                   before == FilesOfCategory(pdf_file, vin, cat)
                   after == FilesOfCategory(pdf_file', vin, cat)
               IN /\ \A p \in before :
                        Cardinality({q \in after : pdf_file'[q] = pdf_file[p]}) = 1
                  /\ \A q \in after : q[3][1] = <<_CAT_SHORT_NAMES[k][2]>>
         /\ last_call.fn = "rescan_apply_renames" => pdf_file' = pdf_file]_vars

====
